---- MODULE Spec2Model ----
(***************************************************************************)
(* Market-By-Order book reconstruction engine                              *)
(* (my_package/orderbook.py: SingleSymbolBook, OrderBook).                 *)
(*                                                                         *)
(* Python dicts are objects: the engine stores the very message dict that  *)
(* was passed to apply, both in _orders and in a price-level list, and     *)
(* mutates it in place.  The model therefore keeps a heap of dict objects  *)
(* (reference -> dict contents) and the book holds references.  A dict is  *)
(* a TLA+ record; a key the dict lacks is a field the record lacks.        *)
(***************************************************************************)
EXTENDS Integers, Sequences, FiniteSets, TLC

\* ---- bounds of the explored input space ----
MaxOrderId == 2
MaxPrice == 1
MaxSize == 2
MaxMessages == 4
MaxEvents == 3
MaxWriters == 2
batch_size == 2
MaxThreads == 2
MaxCalls == 2
MaxSamples == 3
MaxLatency == 3
MaxLines == 2

OrderIds == 1..MaxOrderId
Prices == 0..MaxPrice
Sizes == 0..MaxSize
Sides == {"bid", "ask"}
SymbolSeq == <<"AAPL", "MSFT">>
\* the symbol of the single-symbol feed, and the symbols of the two-symbol feed
Symbols == {SymbolSeq[1]}
TwoSymbols == {SymbolSeq[i] : i \in 1..Len(SymbolSeq)}

\* One more reference than there can be resident orders: the message being
\* applied is an object too.
Refs == 1..(MaxOrderId * Cardinality(Symbols) + 1)

VARIABLES
    heap,           \* reference -> contents of the dict object it designates
    books,          \* OrderBook._books: symbol -> SingleSymbolBook fields
    errors,         \* metrics._errors
    reconstructor,  \* an OrderBookReconstructor (stream.py): books,
                    \* message_count, latencies
    server,         \* a TCPStreamServer (tcp_server.py): running, clients,
                    \* metrics; whether its endpoint listens; where start() is
    stream,         \* the stream_messages task: where it is and its locals
    conns,          \* per connection: its handle_client task, its peer, the
                    \* bytes written to it, the event that was next at accept
    calls,          \* the invocations of the callback, in order
    recorder,       \* the globals of metrics.py: _lock, _messages, _latencies
    threads,        \* per thread: where it is in a call of metrics.py, its
                    \* locals, the number of calls it has made
    recorded,       \* what the completed record_* calls were asked to record
    snapshot,       \* the value last returned by get_metrics
    sample,         \* a call of metrics._percentile: its arguments and result
    reader          \* an MBOFileReader: the lines of its file, messages,
                    \* errors, and how many messages went on to the book

engineVars == <<heap, books, errors, reconstructor>>
tcpVars == <<server, stream, conns, calls>>
metricsVars == <<recorder, threads, recorded, snapshot>>
auxVars == <<metricsVars, sample, reader>>
metricsRest == <<heap, books, reconstructor, tcpVars, sample, reader>>
vars == <<heap, books, errors, reconstructor, server, stream, conns, calls,
          recorder, threads, recorded, snapshot, sample, reader>>

\* ---- Python dict / list primitives ----

\* d[k] = v
Put(d, k, v) == (k :> v) @@ d

\* del d[k]
Del(d, k) == [x \in (DOMAIN d) \ {k} |-> d[x]]

\* list.index(x) by ==, 1-based; 0 when no element compares equal to x
ListIndex(h, list, x) ==
    IF \E i \in 1..Len(list) : h[list[i]] = h[x]
    THEN CHOOSE i \in 1..Len(list) :
            /\ h[list[i]] = h[x]
            /\ \A j \in 1..(i - 1) : h[list[j]] # h[x]
    ELSE 0

\* the list after list.remove(x) found its element at position i
ListRemoveAt(list, i) == SubSeq(list, 1, i - 1) \o SubSeq(list, i + 1, Len(list))

\* ---- SingleSymbolBook ----

\* SingleSymbolBook.__init__
NewBook == [orders |-> <<>>, bids |-> <<>>, asks |-> <<>>]

\* a dict without one of its keys
Without(e, k) == [x \in DOMAIN e \ {k} |-> e[x]]

\* `self._bids if side == 'bid' else self._asks`
LevelOf(side) == IF side = "bid" THEN "bids" ELSE "asks"

\* result of a handler: the book, the heap and whether an exception escaped
Ret(self, h) == [book |-> self, heap |-> h, raised |-> FALSE]
Raise(self, h) == [book |-> self, heap |-> h, raised |-> TRUE]

\* RemoveFromLevel without `if not level[price]: del level[price]`
RemoveFromLevel_keep_level(self, h, side, price, order) ==
    LET lv == LevelOf(side)
        level == self[lv]
    IN IF price \notin DOMAIN level THEN self
       ELSE LET i == ListIndex(h, level[price], order)
            IN IF i = 0 THEN self
               ELSE [self EXCEPT ![lv] = Put(level, price, ListRemoveAt(level[price], i))]

\* `level[price].remove(order); if not level[price]: del level[price]`
\* guarded by `if price in level` and `except ValueError`
RemoveFromLevel(self, h, side, price, order) ==
    LET lv == LevelOf(side)
        level == self[lv]
    IN IF price \notin DOMAIN level THEN self
       ELSE LET i == ListIndex(h, level[price], order)
            IN IF i = 0 THEN self
               ELSE LET rest == ListRemoveAt(level[price], i)
                    IN IF rest = <<>>
                       THEN [self EXCEPT ![lv] = Del(level, price)]
                       ELSE [self EXCEPT ![lv] = Put(level, price, rest)]

\* handle_new without the `if order_id in self._orders` check
handle_new_no_dup_check(self, h, m) ==
    LET msg == h[m]
    IN IF ~ ({"order_id", "price", "side", "size"} \subseteq DOMAIN msg)
       THEN Raise(self, h)
       ELSE LET lv == LevelOf(msg.side)
                level == self[lv]
                q == IF msg.price \in DOMAIN level THEN level[msg.price] ELSE <<>>
            IN Ret([self EXCEPT !.orders = Put(self.orders, msg.order_id, m),
                                ![lv] = Put(level, msg.price, Append(q, m))], h)

\* handle_new with `level[price].insert(0, msg)` for `level[price].append(msg)`
handle_new_at_head(self, h, m) ==
    LET msg == h[m]
    IN IF ~ ({"order_id", "price", "side", "size"} \subseteq DOMAIN msg)
       THEN Raise(self, h)
       ELSE IF msg.order_id \in DOMAIN self.orders
       THEN Ret(self, h)
       ELSE LET lv == LevelOf(msg.side)
                level == self[lv]
                q == IF msg.price \in DOMAIN level THEN level[msg.price] ELSE <<>>
            IN Ret([self EXCEPT !.orders = Put(self.orders, msg.order_id, m),
                                ![lv] = Put(level, msg.price, <<m>> \o q)], h)

handle_new(self, h, m) ==
    LET msg == h[m]
    IN IF ~ ({"order_id", "price", "side", "size"} \subseteq DOMAIN msg)
       THEN Raise(self, h)                  \* KeyError on msg[...]
       ELSE IF msg.order_id \in DOMAIN self.orders
       THEN Ret(self, h)                    \* already exists, ignored
       ELSE LET lv == LevelOf(msg.side)
                level == self[lv]
                q == IF msg.price \in DOMAIN level THEN level[msg.price] ELSE <<>>
            IN Ret([self EXCEPT !.orders = Put(self.orders, msg.order_id, m),
                                ![lv] = Put(level, msg.price, Append(q, m))], h)

\* handle_cancel that looks for the level under the price and side of the
\* CANCEL message
handle_cancel_msg_level(self, h, m) ==
    LET msg == h[m]
    IN IF "order_id" \notin DOMAIN msg
       THEN Raise(self, h)
       ELSE IF msg.order_id \notin DOMAIN self.orders
       THEN Ret(self, h)
       ELSE LET o == self.orders[msg.order_id]
                popped == [self EXCEPT !.orders = Del(self.orders, msg.order_id)]
            IN Ret(RemoveFromLevel(popped, h, msg.side, msg.price, o), h)

\* handle_cancel without the `if order_id not in self._orders` check:
\* `self._orders.pop(order_id)` raises KeyError
handle_cancel_no_check(self, h, m) ==
    LET msg == h[m]
    IN IF "order_id" \notin DOMAIN msg
       THEN Raise(self, h)
       ELSE IF msg.order_id \notin DOMAIN self.orders
       THEN Raise(self, h)
       ELSE LET o == self.orders[msg.order_id]
                popped == [self EXCEPT !.orders = Del(self.orders, msg.order_id)]
            IN Ret(RemoveFromLevel(popped, h, h[o].side, h[o].price, o), h)

\* handle_cancel that pops the lookup table and leaves the price level alone
handle_cancel_pop_only(self, h, m) ==
    LET msg == h[m]
    IN IF "order_id" \notin DOMAIN msg
       THEN Raise(self, h)
       ELSE IF msg.order_id \notin DOMAIN self.orders
       THEN Ret(self, h)
       ELSE Ret([self EXCEPT !.orders = Del(self.orders, msg.order_id)], h)

handle_cancel(self, h, m) ==
    LET msg == h[m]
    IN IF "order_id" \notin DOMAIN msg
       THEN Raise(self, h)
       ELSE IF msg.order_id \notin DOMAIN self.orders
       THEN Ret(self, h)                    \* unknown order id, ignored
       ELSE LET o == self.orders[msg.order_id]
                popped == [self EXCEPT !.orders = Del(self.orders, msg.order_id)]
            IN Ret(RemoveFromLevel(popped, h, h[o].side, h[o].price, o), h)

\* handle_modify that ignores a MODIFY for an unknown order_id
handle_modify_drop_unknown(self, h, m) ==
    LET msg == h[m]
    IN IF ~ ({"order_id", "size"} \subseteq DOMAIN msg)
       THEN Raise(self, h)
       ELSE IF msg.order_id \notin DOMAIN self.orders
       THEN Ret(self, h)
       ELSE LET o == self.orders[msg.order_id]
            IN IF ~ ({"price", "side"} \subseteq DOMAIN h[o])
               THEN Ret(self, h)
               ELSE LET popped == [self EXCEPT !.orders = Del(self.orders, msg.order_id)]
                        removed == RemoveFromLevel(popped, h, h[o].side, h[o].price, o)
                        h2 == [h EXCEPT ![m] = Put(msg, "size", msg.size)]
                    IN handle_new(removed, h2, m)

\* handle_modify that updates the size of the resident order in place
handle_modify_in_place(self, h, m) ==
    LET msg == h[m]
    IN IF ~ ({"order_id", "size"} \subseteq DOMAIN msg)
       THEN Raise(self, h)
       ELSE IF msg.order_id \notin DOMAIN self.orders
       THEN handle_new(self, h, m)
       ELSE LET o == self.orders[msg.order_id]
            IN Ret(self, [h EXCEPT ![o] = Put(h[o], "size", msg.size)])

handle_modify(self, h, m) ==
    LET msg == h[m]
    IN IF ~ ({"order_id", "size"} \subseteq DOMAIN msg)
       THEN Raise(self, h)
       ELSE IF msg.order_id \notin DOMAIN self.orders
       THEN handle_new(self, h, m)          \* treated as NEW
       ELSE LET o == self.orders[msg.order_id]
            IN IF ~ ({"price", "side"} \subseteq DOMAIN h[o])
               THEN Ret(self, h)            \* malformed old order
               ELSE LET popped == [self EXCEPT !.orders = Del(self.orders, msg.order_id)]
                        removed == RemoveFromLevel(popped, h, h[o].side, h[o].price, o)
                        h2 == [h EXCEPT ![m] = Put(msg, "size", msg.size)]
                    IN handle_new(removed, h2, m)

\* handle_execute without the cap, and with `if new_size == 0`
handle_execute_uncapped(self, h, m) ==
    LET msg == h[m]
    IN IF ~ ({"order_id", "size"} \subseteq DOMAIN msg)
       THEN Raise(self, h)
       ELSE IF msg.order_id \notin DOMAIN self.orders
       THEN Ret(self, h)
       ELSE LET o == self.orders[msg.order_id]
                new_size == h[o].size - msg.size
                h2 == [h EXCEPT ![o] = Put(h[o], "size", new_size)]
            IN IF new_size = 0
               THEN LET popped == [self EXCEPT !.orders = Del(self.orders, msg.order_id)]
                    IN Ret(RemoveFromLevel(popped, h2, h[o].side, h[o].price, o), h2)
               ELSE Ret(self, h2)

\* handle_execute that re-queues a partially filled order at the tail
handle_execute_requeue(self, h, m) ==
    LET msg == h[m]
    IN IF ~ ({"order_id", "size"} \subseteq DOMAIN msg)
       THEN Raise(self, h)
       ELSE IF msg.order_id \notin DOMAIN self.orders
       THEN Ret(self, h)
       ELSE LET o == self.orders[msg.order_id]
                passive_size == h[o].size
                exec_size == IF msg.size > passive_size THEN passive_size ELSE msg.size
                new_size == passive_size - exec_size
                h2 == [h EXCEPT ![o] = Put(h[o], "size", new_size)]
                popped == [self EXCEPT !.orders = Del(self.orders, msg.order_id)]
                removed == RemoveFromLevel(popped, h2, h[o].side, h[o].price, o)
            IN IF new_size <= 0
               THEN Ret(removed, h2)
               ELSE LET lv == LevelOf(h[o].side)
                        q == IF h[o].price \in DOMAIN removed[lv]
                             THEN removed[lv][h[o].price] ELSE <<>>
                    IN Ret([self EXCEPT ![lv] = Put(removed[lv], h[o].price, Append(q, o))], h2)

handle_execute(self, h, m) ==
    LET msg == h[m]
    IN IF ~ ({"order_id", "size"} \subseteq DOMAIN msg)
       THEN Raise(self, h)
       ELSE IF msg.order_id \notin DOMAIN self.orders
       THEN Ret(self, h)                    \* unknown order id, ignored
       ELSE LET o == self.orders[msg.order_id]
                passive_size == h[o].size
                exec_size == IF msg.size > passive_size THEN passive_size ELSE msg.size
                new_size == passive_size - exec_size
                h2 == [h EXCEPT ![o] = Put(h[o], "size", new_size)]
            IN IF new_size <= 0
               THEN LET popped == [self EXCEPT !.orders = Del(self.orders, msg.order_id)]
                    IN Ret(RemoveFromLevel(popped, h2, h[o].side, h[o].price, o), h2)
               ELSE Ret(self, h2)

\* ---- OrderBook ----

\* the dispatch of OrderBook.apply
Dispatch(self, h, m) ==
    CASE h[m].type = "NEW" -> handle_new(self, h, m)
      [] h[m].type = "CANCEL" -> handle_cancel(self, h, m)
      [] h[m].type = "MODIFY" -> handle_modify(self, h, m)
      [] h[m].type = "EXECUTE" -> handle_execute(self, h, m)
      [] OTHER -> Ret(self, h)              \* unknown message type

\* references the book still holds
Held(bs) ==
    UNION {
        {bs[s].orders[k] : k \in DOMAIN bs[s].orders}
        \cup UNION {{bs[s].bids[p][i] : i \in 1..Len(bs[s].bids[p])} : p \in DOMAIN bs[s].bids}
        \cup UNION {{bs[s].asks[p][i] : i \in 1..Len(bs[s].asks[p])} : p \in DOMAIN bs[s].asks}
        : s \in DOMAIN bs}

\* A dict nothing refers to any more is reclaimed, and the surviving objects
\* are renumbered 1..n: a reference is an address, its number means nothing.
\* The numbering follows the symbol and order_id the object carries and,
\* among objects carrying the same ones, their old numbers.
SymbolRank(s) == CHOOSE i \in 1..Len(SymbolSeq) : SymbolSeq[i] = s

Before(h, q, r) ==
    \/ SymbolRank(h[q].symbol) < SymbolRank(h[r].symbol)
    \/ /\ h[q].symbol = h[r].symbol
       /\ \/ h[q].order_id < h[r].order_id
          \/ h[q].order_id = h[r].order_id /\ q <= r

\* the references of a set, in that order
RECURSIVE Numbering(_, _)
Numbering(h, live) ==
    IF live = {} THEN <<>>
    ELSE LET r == CHOOSE x \in live : \A q \in live : Before(h, x, q)
         IN <<r>> \o Numbering(h, live \ {r})

RenameLevels(level, ren) ==
    [p \in DOMAIN level |-> [i \in 1..Len(level[p]) |-> ren[level[p][i]]]]

Collect(h, bs) ==
    LET old == Numbering(h, (DOMAIN h) \cap Held(bs))
        ren == [r \in (DOMAIN h) \cap Held(bs) |-> CHOOSE n \in 1..Len(old) : old[n] = r]
    IN [heap |-> [n \in 1..Len(old) |-> h[old[n]]],
        books |-> [s \in DOMAIN bs |->
                     [orders |-> [k \in DOMAIN bs[s].orders |-> ren[bs[s].orders[k]]],
                      bids |-> RenameLevels(bs[s].bids, ren),
                      asks |-> RenameLevels(bs[s].asks, ren)]]]

\* the object a caller's fresh message dict becomes
Fresh(h) == Cardinality(DOMAIN h) + 1

\* max(keys) and min(keys) of a non-empty dict of price levels
MaxKey(level) == CHOOSE p \in DOMAIN level : \A q \in DOMAIN level : q <= p
MinKey(level) == CHOOSE p \in DOMAIN level : \A q \in DOMAIN level : p <= q

\* sum(order['size'] for order in queue)
RECURSIVE SumSizes(_, _)
SumSizes(h, queue) ==
    IF queue = <<>> THEN 0 ELSE h[Head(queue)].size + SumSizes(h, Tail(queue))

\* SingleSymbolBook.get_bba: (best_bid, best_ask, bid_size, ask_size); the
\* whole-side sums computed first are overwritten on both branches
get_bba(self, h) ==
    LET best_bid == IF DOMAIN self.bids # {} THEN MaxKey(self.bids) ELSE 0
        best_ask == IF DOMAIN self.asks # {} THEN MinKey(self.asks) ELSE 0
    IN [best_bid |-> best_bid,
        best_ask |-> best_ask,
        bid_size |-> IF best_bid > 0 THEN SumSizes(h, self.bids[best_bid]) ELSE 0,
        ask_size |-> IF best_ask > 0 THEN SumSizes(h, self.asks[best_ask]) ELSE 0]

\* SingleSymbolBook.get_top_of_book
get_top_of_book(symbol, self, h) ==
    LET bba == get_bba(self, h)
    IN [symbol |-> symbol,
        best_bid |-> bba.best_bid,
        best_ask |-> bba.best_ask,
        bid_depth |-> bba.bid_size,
        ask_depth |-> bba.ask_size,
        spread |-> IF bba.best_ask > 0 /\ bba.best_bid > 0
                   THEN bba.best_ask - bba.best_bid ELSE 0]

\* SingleSymbolBook.get_book_depth
get_book_depth(symbol, self, h) ==
    [symbol |-> symbol,
     bids |-> [p \in DOMAIN self.bids |->
                  [i \in 1..Len(self.bids[p]) |-> h[self.bids[p][i]].size]],
     asks |-> [p \in DOMAIN self.asks |->
                  [i \in 1..Len(self.asks[p]) |-> h[self.asks[p][i]].size]],
     total_orders |-> Cardinality(DOMAIN self.orders)]

LevelNames == {"bids", "asks"}

\* the book of a symbol, as apply finds or creates it
BookOf(bs, s) == IF s \in DOMAIN bs THEN bs[s] ELSE NewBook

\* Python's None
None == [none |-> TRUE]

\* OrderBook.get_bba_for_symbol that makes the book it does not find
get_bba_for_symbol_setdefault(bs, h, symbol) ==
    LET made == IF symbol \in DOMAIN bs THEN bs ELSE Put(bs, symbol, NewBook)
    IN [result |-> get_top_of_book(symbol, made[symbol], h), books |-> made]

\* OrderBook.get_bba_for_symbol: what it returns and the _books it leaves
get_bba_for_symbol(bs, h, symbol) ==
    [result |-> IF symbol \in DOMAIN bs
                THEN get_top_of_book(symbol, bs[symbol], h)
                ELSE None,
     books |-> bs]

\* OrderBook.get_full_depth: what it returns and the _books it leaves
get_full_depth(bs, h, symbol) ==
    [result |-> IF symbol \in DOMAIN bs
                THEN get_book_depth(symbol, bs[symbol], h)
                ELSE None,
     books |-> bs]

\* verify(symbol) -> {valid, violations}: (a) the best bid is strictly below
\* the best ask when both exist, (b) every resident level has aggregate size
\* > 0, (c) no negative price or size is in the book; a read-only audit
verify_correctness(bs, h, symbol) ==
    LET b == BookOf(bs, symbol)
        crossing ==
            IF DOMAIN b.bids # {} /\ DOMAIN b.asks # {}
                  /\ MaxKey(b.bids) >= MinKey(b.asks)
            THEN {[check |-> "crossing", best_bid |-> MaxKey(b.bids),
                   best_ask |-> MinKey(b.asks)]}
            ELSE {}
        empty ==
            UNION {{[check |-> "level_size", level |-> lv, price |-> p]
                       : p \in {x \in DOMAIN b[lv] : SumSizes(h, b[lv][x]) <= 0}}
                   : lv \in LevelNames}
        negative ==
            UNION {{[check |-> "negative", level |-> lv, price |-> p]
                       : p \in {x \in DOMAIN b[lv] :
                                   \/ x < 0
                                   \/ \E i \in 1..Len(b[lv][x]) : h[b[lv][x][i]].size < 0}}
                   : lv \in LevelNames}
        violations == crossing \cup empty \cup negative
    IN [valid |-> violations = {}, violations |-> violations, books |-> bs]

\* str(data["side"]).lower()
Lower(side) ==
    CASE side = "BID" -> "bid"
      [] side = "ASK" -> "ask"
      [] OTHER -> side

\* MessageParser.parse on the decoded line: ValueError when a required field
\* is missing, else the event
parse(data) ==
    IF ~ ({"type", "symbol", "side", "price", "size"} \subseteq DOMAIN data)
    THEN [raised |-> TRUE, event |-> None]
    ELSE [raised |-> FALSE,
          event |-> [symbol |-> data.symbol, side |-> Lower(data.side),
                     price |-> data.price, size |-> data.size]]

\* OrderBookReconstructor.apply that adds the size to the level
reconstructor_apply_add(self, data) ==
    LET parsed == parse(data)
    IN IF parsed.raised THEN [self |-> self, raised |-> TRUE]
       ELSE LET event == parsed.event
                symbol == event.symbol
                bs == IF symbol \in DOMAIN self.books THEN self.books
                      ELSE Put(self.books, symbol, [bids |-> <<>>, asks |-> <<>>])
                side_key == IF event.side = "bid" THEN "bids" ELSE "asks"
                level == bs[symbol][side_key]
                old == IF event.price \in DOMAIN level THEN level[event.price] ELSE 0
                updated == IF event.size <= 0
                           THEN Del(level, event.price)
                           ELSE Put(level, event.price, old + event.size)
            IN [self |-> [books |-> Put(bs, symbol, [bs[symbol] EXCEPT ![side_key] = updated]),
                          message_count |-> self.message_count + 1,
                          latencies |-> Append(self.latencies, "latency_ms")],
                raised |-> FALSE]

\* OrderBookReconstructor.apply on the decoded line: the reconstructor it
\* leaves and whether it raised; a latency is a measured value of which only
\* the presence is kept
reconstructor_apply(self, data) ==
    LET parsed == parse(data)
    IN IF parsed.raised THEN [self |-> self, raised |-> TRUE]
       ELSE LET event == parsed.event
                symbol == event.symbol
                bs == IF symbol \in DOMAIN self.books THEN self.books
                      ELSE Put(self.books, symbol, [bids |-> <<>>, asks |-> <<>>])
                side_key == IF event.side = "bid" THEN "bids" ELSE "asks"
                level == bs[symbol][side_key]
                updated == IF event.size <= 0
                           THEN Del(level, event.price)
                           ELSE Put(level, event.price, event.size)
            IN [self |-> [books |-> Put(bs, symbol, [bs[symbol] EXCEPT ![side_key] = updated]),
                          message_count |-> self.message_count + 1,
                          latencies |-> Append(self.latencies, "latency_ms")],
                raised |-> FALSE]

\* the n first keys of a dict of levels, by descending or ascending price
RECURSIVE TopKeys(_, _, _)
TopKeys(keys, n, descending) ==
    IF keys = {} \/ n <= 0 THEN <<>>
    ELSE LET k == CHOOSE x \in keys :
                     \A y \in keys : IF descending THEN y <= x ELSE x <= y
         IN <<k>> \o TopKeys(keys \ {k}, n - 1, descending)

\* OrderBookReconstructor.get_book that sorts both sides by ascending price
get_book_ascending(self, symbol, n) ==
    [result |->
        IF symbol \notin DOMAIN self.books
        THEN [symbol |-> symbol, bids |-> <<>>, asks |-> <<>>]
        ELSE LET book == self.books[symbol]
                 bids == TopKeys(DOMAIN book.bids, n, FALSE)
                 asks == TopKeys(DOMAIN book.asks, n, FALSE)
             IN [symbol |-> symbol,
                 bids |-> [i \in 1..Len(bids) |->
                             [price |-> bids[i], size |-> book.bids[bids[i]]]],
                 asks |-> [i \in 1..Len(asks) |->
                             [price |-> asks[i], size |-> book.asks[asks[i]]]]],
     books |-> self.books]

\* OrderBookReconstructor.get_book(symbol, n): what it returns and the books
\* it leaves
get_book(self, symbol, n) ==
    [result |->
        IF symbol \notin DOMAIN self.books
        THEN [symbol |-> symbol, bids |-> <<>>, asks |-> <<>>]
        ELSE LET book == self.books[symbol]
                 bids == TopKeys(DOMAIN book.bids, n, TRUE)
                 asks == TopKeys(DOMAIN book.asks, n, FALSE)
             IN [symbol |-> symbol,
                 bids |-> [i \in 1..Len(bids) |->
                             [price |-> bids[i], size |-> book.bids[bids[i]]]],
                 asks |-> [i \in 1..Len(asks) |->
                             [price |-> asks[i], size |-> book.asks[asks[i]]]]],
     books |-> self.books]

\* metrics.record_error(count): `_errors += count` under the lock
record_error(errs, count) == errs + count

\* OrderBook.apply without its try/except: a handler's exception escapes
applied_no_except(h0, bs0, message) ==
    IF ~ ({"symbol", "type"} \subseteq DOMAIN message)
    THEN [heap |-> h0, books |-> bs0, caught |-> FALSE, raised |-> FALSE]
    ELSE LET m == Fresh(h0)
             h == Put(h0, m, message)
             symbol == message.symbol
             bs == IF symbol \in DOMAIN bs0 THEN bs0 ELSE Put(bs0, symbol, NewBook)
             res == Dispatch(bs[symbol], h, m)
             kept == Collect(res.heap, Put(bs, symbol, res.book))
         IN [heap |-> kept.heap, books |-> kept.books, caught |-> FALSE,
             raised |-> res.raised]

\* OrderBook.apply that hands every event to the first book there is
applied_first_book(h0, bs0, message) ==
    IF ~ ({"symbol", "type"} \subseteq DOMAIN message)
    THEN [heap |-> h0, books |-> bs0, caught |-> FALSE, raised |-> FALSE]
    ELSE LET m == Fresh(h0)
             h == Put(h0, m, message)
             symbol == IF DOMAIN bs0 = {} THEN message.symbol
                       ELSE CHOOSE s \in DOMAIN bs0 :
                                \A t \in DOMAIN bs0 : SymbolRank(s) <= SymbolRank(t)
             bs == IF symbol \in DOMAIN bs0 THEN bs0 ELSE Put(bs0, symbol, NewBook)
             res == Dispatch(bs[symbol], h, m)
             kept == Collect(res.heap, Put(bs, symbol, res.book))
         IN [heap |-> kept.heap, books |-> kept.books, caught |-> res.raised,
             raised |-> FALSE]

\* OrderBook.apply(message) on the heap h0 and the books bs0: the heap and
\* the books it leaves, whether its `except Exception` caught a handler, and
\* whether an exception left apply.
applied(h0, bs0, message) ==
    IF ~ ({"symbol", "type"} \subseteq DOMAIN message)
    THEN [heap |-> h0, books |-> bs0, caught |-> FALSE,   \* missing required fields
          raised |-> FALSE]
    ELSE LET m == Fresh(h0)
             h == Put(h0, m, message)
             symbol == message.symbol
             bs == IF symbol \in DOMAIN bs0 THEN bs0 ELSE Put(bs0, symbol, NewBook)
             res == Dispatch(bs[symbol], h, m)
             kept == Collect(res.heap, Put(bs, symbol, res.book))
         IN [heap |-> kept.heap, books |-> kept.books, caught |-> res.raised,
             raised |-> FALSE]

\* orderbook.py makes no call to metrics.record_error: _errors stays as it is
apply(message) ==
    /\ Fresh(heap) \in Refs
    /\ LET r == applied(heap, books, message)
       IN /\ heap' = r.heap
          /\ books' = r.books
    /\ UNCHANGED <<errors, reconstructor>>
    /\ UNCHANGED <<tcpVars, auxVars>>

\* ---- the event stream ----

\* The message dicts of the feed.  The timestamp a message also carries is
\* left out: no handler reads it.
Event(t) ==
    [type : {t}, symbol : Symbols, order_id : OrderIds,
     side : Sides, price : Prices, size : Sizes]

Events == Event("NEW") \cup Event("CANCEL") \cup Event("MODIFY") \cup Event("EXECUTE")

ApplyNew == \E e \in Event("NEW") : apply(e)
ApplyCancel == \E e \in Event("CANCEL") : apply(e)
ApplyModify == \E e \in Event("MODIFY") : apply(e)
ApplyExecute == \E e \in Event("EXECUTE") : apply(e)

\* ---- TCPStreamServer (tcp_server.py) ----

\* the connections the endpoint accepts, in the order it accepts them
Writers == 1..MaxWriters

\* the messages handed to start(): MaxEvents events, told apart by order_id
messages == [i \in 1..MaxEvents |-> [type |-> "NEW", order_id |-> i]]

\* the welcome message; its timestamp is a clock reading and is left out
Welcome == [type |-> "WELCOME"]

\* StreamMetrics() and TCPStreamServer.__init__; nothing listens and start()
\* has not been called
NewServer ==
    [running |-> FALSE, listening |-> FALSE, start |-> "new", clients |-> <<>>,
     metrics |-> [messages_sent |-> 0, bytes_sent |-> 0, clients_connected |-> 0,
                  errors |-> 0]]

\* no stream_messages task yet; i, batch, the position j in the batch, the
\* position k of the list iterator, writer and disconnected are its locals
NoStream == [pc |-> "none", i |-> 0, batch |-> <<>>, j |-> 0, k |-> 0,
             writer |-> 0, disconnected |-> <<>>]

\* a connection the endpoint has not accepted yet; sent is the messages
\* passed to _send_message for it, wire the bytes handed to writer.write,
\* since the index of the event that was next at accept
NoConnection ==
    [handler |-> "none", peer |-> "none", sent |-> <<>>, wire |-> <<>>, since |-> 0]

\* json.dumps(message).encode('utf-8'): an injective encoding of the message
\* as bytes, of which the model keeps a tag byte and the order_id
Encode(message) ==
    IF message.type = "WELCOME" THEN <<87>> ELSE <<78, message.order_id>>

\* json.loads(message_data.decode('utf-8'))
Decode(payload) ==
    IF payload = <<87>> THEN Welcome
    ELSE IF Len(payload) = 2 /\ payload[1] = 78
    THEN [type |-> "NEW", order_id |-> payload[2]]
    ELSE [type |-> "garbage"]

\* struct.pack in little-endian order
pack_little(n) ==
    <<n % 256, (n \div 256) % 256, (n \div 65536) % 256, (n \div 16777216) % 256>>

\* struct.pack('!I', n): four bytes, big-endian
pack(n) ==
    <<(n \div 16777216) % 256, (n \div 65536) % 256, (n \div 256) % 256, n % 256>>

\* struct.unpack('!I', length_data)[0]
unpack(b) == ((b[1] * 256 + b[2]) * 256 + b[3]) * 256 + b[4]

\* the bytes _send_message hands to writer.write in one call
Frame(message) == pack(Len(Encode(message))) \o Encode(message)

\* TCPClient.connect_and_receive on the bytes of a connection: readexactly(4),
\* unpack, readexactly(length), json.loads, until the bytes run out
RECURSIVE Received(_)
Received(bytes) ==
    IF Len(bytes) < 4 THEN <<>>
    ELSE LET n == unpack(SubSeq(bytes, 1, 4))
         IN IF Len(bytes) < 4 + n THEN <<>>
            ELSE <<Decode(SubSeq(bytes, 5, 4 + n))>>
                    \o Received(SubSeq(bytes, 5 + n, Len(bytes)))

\* list.remove(w) guarded by `if w in list`
Remove(list, w) ==
    IF \E x \in 1..Len(list) : list[x] = w
    THEN ListRemoveAt(list, CHOOSE x \in 1..Len(list) :
                                /\ list[x] = w
                                /\ \A y \in 1..(x - 1) : list[y] # w)
    ELSE list

\* the part of _send_message after a drain that returned
Sent(metrics, message) ==
    [metrics EXCEPT !.messages_sent = @ + 1,
                    !.bytes_sent = @ + Len(Encode(message)) + 4]

\* the `except Exception` of _send_message, which re-raises
SendFailed(metrics) == [metrics EXCEPT !.errors = @ + 1]

\* the stream_messages task runs between two of its suspension points; the
\* event loop runs nothing else until it suspends
StreamRuns == stream.pc \in {"callback", "send"}

\* the index in `messages` of the message the stream task is at
CurrentEvent == stream.i + stream.j

\* the index of the event whose broadcast starts next
NextEvent ==
    CASE stream.pc \in {"none", "start"} -> 1
      [] stream.pc = "drain" -> CurrentEvent + 1
      [] OTHER -> stream.i + 1

\* start() up to its first await: running = True, then it is suspended in
\* `await asyncio.start_server(...)`, outside the try block
Start ==
    /\ server.start = "new"
    /\ server' = [server EXCEPT !.running = TRUE, !.start = "binding"]
    /\ UNCHANGED <<stream, conns, calls>>
    /\ UNCHANGED <<engineVars, auxVars>>

\* asyncio.start_server returns: the endpoint listens; then
\* create_task(stream_messages) and, inside `async with server`,
\* `await stream_task`
Listen ==
    /\ server.start = "binding"
    /\ server' = [server EXCEPT !.listening = TRUE, !.start = "streaming"]
    /\ stream' = [NoStream EXCEPT !.pc = "start"]
    /\ UNCHANGED <<conns, calls>>
    /\ UNCHANGED <<engineVars, auxVars>>

\* external cancellation of start() while it awaits asyncio.start_server:
\* CancelledError is raised before the try block, so the finally block does
\* not run; the endpoint is already listening or not, depending on how far
\* create_server got, and start() has no reference to it
CancelBinding ==
    /\ server.start = "binding"
    /\ \E listens \in BOOLEAN :
          server' = [server EXCEPT !.listening = listens, !.start = "stopped"]
    /\ UNCHANGED <<stream, conns, calls>>
    /\ UNCHANGED <<engineVars, auxVars>>

\* start() that returns when the stream task is done
after_stream_return(srv) ==
    [srv EXCEPT !.start = "returned", !.running = FALSE, !.listening = FALSE]

\* start() after `await stream_task`: `await asyncio.Future()` never completes
after_stream(srv) == [srv EXCEPT !.start = "forever"]

StreamFinished ==
    /\ server.start = "streaming"
    /\ stream.pc = "done"
    /\ server' = after_stream(server)
    /\ UNCHANGED <<stream, conns, calls>>
    /\ UNCHANGED <<engineVars, auxVars>>

\* external cancellation of start() inside the try block: CancelledError at
\* its await, which also cancels the stream task it awaits; `async with`
\* closes the endpoint, then `finally: running = False; server.close()`
Cancel ==
    /\ server.start \in {"streaming", "forever"}
    /\ ~ StreamRuns
    /\ server' = [server EXCEPT !.running = FALSE, !.listening = FALSE,
                                !.start = "stopped"]
    /\ stream' = IF stream.pc = "done" THEN stream
                 ELSE [stream EXCEPT !.pc = "cancelled"]
    /\ UNCHANGED <<conns, calls>>
    /\ UNCHANGED <<engineVars, auxVars>>

\* handle_client that registers the writer and sends no welcome
welcomed_none(metrics, c) == [metrics |-> metrics, conn |-> c]

\* handle_client's `await self._send_message(writer, WELCOME)` on a fresh
\* connection: the frame is written and the drain returns at once
welcomed(metrics, c) ==
    [metrics |-> Sent(metrics, Welcome),
     conn |-> [c EXCEPT !.sent = Append(@, Welcome), !.wire = @ \o Frame(Welcome)]]

\* handle_client up to its first `await asyncio.sleep(0.1)`: the writer is
\* registered, the welcome frame written, the keep-alive loop entered
Accept(w) ==
    /\ server.listening
    /\ ~ StreamRuns
    /\ conns[w].handler = "none"
    /\ \A v \in 1..(w - 1) : conns[v].handler # "none"
    /\ LET r == welcomed([server.metrics EXCEPT !.clients_connected = @ + 1],
                         conns[w])
       IN /\ server' = [server EXCEPT !.clients = Append(@, w), !.metrics = r.metrics]
          /\ conns' = [conns EXCEPT ![w] = [r.conn EXCEPT !.handler = "sleeping",
                                                          !.peer = "reading",
                                                          !.since = NextEvent]]
    /\ UNCHANGED <<stream, calls>>
    /\ UNCHANGED <<engineVars, auxVars>>

\* handle_client for a connection that is lost before the welcome is sent:
\* drain raises, _send_message counts the error, `finally` unregisters
AcceptLost(w) ==
    /\ server.listening
    /\ ~ StreamRuns
    /\ conns[w].handler = "none"
    /\ \A v \in 1..(w - 1) : conns[v].handler # "none"
    /\ server' = [server EXCEPT !.metrics = SendFailed(@)]
    /\ conns' = [conns EXCEPT ![w] = [handler |-> "done", peer |-> "reset",
                                      sent |-> <<Welcome>>, wire |-> Frame(Welcome),
                                      since |-> NextEvent]]
    /\ UNCHANGED <<stream, calls>>
    /\ UNCHANGED <<engineVars, auxVars>>

\* the keep-alive loop wakes from its sleep and ends: `while self.running`
\* is false or reader.at_eof(); then `finally` unregisters and closes the writer
HandlerExit(w) ==
    /\ ~ StreamRuns
    /\ conns[w].handler = "sleeping"
    /\ ~ server.running \/ conns[w].peer = "closed"
    /\ server' = [server EXCEPT !.clients = Remove(@, w),
                                !.metrics.clients_connected = @ - 1]
    /\ conns' = [conns EXCEPT ![w].handler = "done"]
    /\ UNCHANGED <<stream, calls>>
    /\ UNCHANGED <<engineVars, auxVars>>

\* the peer closes its side: the reader is at EOF; from then on a drain
\* returns if the peer still reads and raises if the connection is lost
PeerClose(w) ==
    /\ ~ StreamRuns
    /\ conns[w].peer \in {"reading", "stalled"}
    /\ conns' = [conns EXCEPT ![w].peer = "closed"]
    /\ UNCHANGED <<server, stream, calls>>
    /\ UNCHANGED <<engineVars, auxVars>>

\* the connection is reset: the reader holds the exception (and is not at
\* EOF), drain raises it
PeerReset(w) ==
    /\ ~ StreamRuns
    /\ conns[w].peer \in {"reading", "stalled"}
    /\ conns' = [conns EXCEPT ![w].peer = "reset"]
    /\ UNCHANGED <<server, stream, calls>>
    /\ UNCHANGED <<engineVars, auxVars>>

\* the peer stops reading for good: once the buffers are full a drain on this
\* connection does not return
PeerStall(w) ==
    /\ ~ StreamRuns
    /\ conns[w].peer = "reading"
    /\ conns' = [conns EXCEPT ![w].peer = "stalled"]
    /\ UNCHANGED <<server, stream, calls>>
    /\ UNCHANGED <<engineVars, auxVars>>

\* messages[i:i + batch_size] with one message too many
batch_overlapping(i) ==
    SubSeq(messages, i + 1,
           IF i + batch_size + 1 < Len(messages) THEN i + batch_size + 1
           ELSE Len(messages))

\* messages[i:i + batch_size], i counting from 0
batch(i) ==
    SubSeq(messages, i + 1,
           IF i + batch_size < Len(messages) THEN i + batch_size ELSE Len(messages))

\* the stream task is first scheduled: the first batch, or the end of the
\* loop for an empty list
StreamStart ==
    /\ stream.pc = "start"
    /\ stream' = IF Len(messages) = 0 THEN [stream EXCEPT !.pc = "done"]
                 ELSE [stream EXCEPT !.pc = "callback", !.i = 0, !.batch = batch(0),
                                     !.j = 1]
    /\ UNCHANGED <<server, conns, calls>>
    /\ UNCHANGED <<engineVars, auxVars>>

\* a loop that goes on to broadcast the next message of the batch without
\* applying the callback to it first
Advanced_broadcast_first(st, sleeps) ==
    IF st.j < Len(st.batch)
    THEN [st EXCEPT !.pc = "send", !.j = @ + 1, !.k = 1, !.writer = 0,
                    !.disconnected = <<>>]
    ELSE LET next == st.i + batch_size
             base == [st EXCEPT !.k = 0, !.writer = 0, !.disconnected = <<>>,
                                !.i = next, !.j = 0,
                                !.batch = IF next < Len(messages) THEN batch(next)
                                          ELSE <<>>]
         IN IF sleeps THEN [base EXCEPT !.pc = "sleep"]
            ELSE IF next < Len(messages) THEN [base EXCEPT !.pc = "callback", !.j = 1]
            ELSE [base EXCEPT !.pc = "done"]

\* the stream task after the message at position j of its batch: the next
\* message of the batch, or the rate-limiting sleep (sleeps = TRUE) and the
\* next batch, or the end of the loop
Advanced(st, sleeps) ==
    IF st.j < Len(st.batch)
    THEN [st EXCEPT !.pc = "callback", !.j = @ + 1, !.k = 0, !.writer = 0,
                    !.disconnected = <<>>]
    ELSE LET next == st.i + batch_size
             base == [st EXCEPT !.k = 0, !.writer = 0, !.disconnected = <<>>,
                                !.i = next, !.j = 0,
                                !.batch = IF next < Len(messages) THEN batch(next)
                                          ELSE <<>>]
         IN IF sleeps THEN [base EXCEPT !.pc = "sleep"]
            ELSE IF next < Len(messages) THEN [base EXCEPT !.pc = "callback", !.j = 1]
            ELSE [base EXCEPT !.pc = "done"]

\* a callback error that is swallowed without being counted
callback_failed_uncounted(metrics) == metrics

\* `except Exception: self.metrics.errors += 1` around callback(message)
callback_failed(metrics) == [metrics EXCEPT !.errors = @ + 1]

\* callback(message), which returns or raises, then `if self.clients:` the
\* start of broadcast_message, else the next message
Callback ==
    /\ stream.pc = "callback"
    /\ \E raised \in BOOLEAN, sleeps \in BOOLEAN :
          /\ calls' = Append(calls, [message |-> stream.batch[stream.j],
                                     raised |-> raised])
          /\ server' = IF raised
                       THEN [server EXCEPT !.metrics = callback_failed(@)]
                       ELSE server
          /\ stream' = IF server.clients # <<>>
                       THEN [stream EXCEPT !.pc = "send", !.k = 1,
                                           !.disconnected = <<>>]
                       ELSE Advanced(stream, sleeps)
    /\ UNCHANGED conns
    /\ UNCHANGED <<engineVars, auxVars>>

\* the end of broadcast_message: each writer in `disconnected` that is
\* still registered is removed and clients_connected decremented
RECURSIVE CleanedUp(_, _)
CleanedUp(srv, disconnected) ==
    IF disconnected = <<>> THEN srv
    ELSE LET w == Head(disconnected)
             found == \E x \in 1..Len(srv.clients) : srv.clients[x] = w
         IN CleanedUp(IF found
                      THEN [srv EXCEPT !.clients = Remove(@, w),
                                       !.metrics.clients_connected = @ - 1]
                      ELSE srv,
                      Tail(disconnected))

\* one turn of `for writer in self.clients` in broadcast_message: the list
\* iterator is past the end (clean up, next message), or _send_message writes
\* the frame and its drain returns, raises, or suspends the task
Send ==
    /\ stream.pc = "send"
    /\ IF stream.k > Len(server.clients)
       THEN /\ server' = CleanedUp(server, stream.disconnected)
            /\ \E sleeps \in BOOLEAN : stream' = Advanced(stream, sleeps)
            /\ UNCHANGED conns
       ELSE LET w == server.clients[stream.k]
                message == stream.batch[stream.j]
            IN /\ conns' = [conns EXCEPT ![w].sent = Append(@, message),
                                         ![w].wire = @ \o Frame(message)]
               /\ \/ /\ conns[w].peer \in {"reset", "closed"}
                     /\ server' = [server EXCEPT !.metrics = SendFailed(@)]
                     /\ stream' = [stream EXCEPT !.k = @ + 1,
                                                 !.disconnected = Append(@, w)]
                  \/ /\ conns[w].peer # "reset"
                     /\ server' = [server EXCEPT !.metrics = Sent(@, message)]
                     /\ stream' = [stream EXCEPT !.k = @ + 1]
                  \/ /\ conns[w].peer # "reset"
                     /\ stream' = [stream EXCEPT !.pc = "drain", !.writer = w]
                     /\ UNCHANGED server
    /\ UNCHANGED calls
    /\ UNCHANGED <<engineVars, auxVars>>

\* a suspended drain returns (the peer has read, or the connection was
\* closed without an error) or raises (the connection was lost); it does
\* neither while the peer has stopped reading
DrainResume ==
    /\ stream.pc = "drain"
    /\ LET w == stream.writer
           message == stream.batch[stream.j]
       IN \/ /\ conns[w].peer \in {"reading", "closed"}
             /\ server' = [server EXCEPT !.metrics = Sent(@, message)]
             /\ stream' = [stream EXCEPT !.pc = "send", !.k = @ + 1, !.writer = 0]
          \/ /\ conns[w].peer \in {"reset", "closed"}
             /\ server' = [server EXCEPT !.metrics = SendFailed(@)]
             /\ stream' = [stream EXCEPT !.pc = "send", !.k = @ + 1, !.writer = 0,
                                         !.disconnected = Append(@, w)]
    /\ UNCHANGED <<conns, calls>>
    /\ UNCHANGED <<engineVars, auxVars>>

\* the rate-limiting sleep is over: the next batch, or the end of the loop
StreamWake ==
    /\ stream.pc = "sleep"
    /\ stream' = IF stream.i < Len(messages)
                 THEN [stream EXCEPT !.pc = "callback", !.j = 1]
                 ELSE [stream EXCEPT !.pc = "done"]
    /\ UNCHANGED <<server, conns, calls>>
    /\ UNCHANGED <<engineVars, auxVars>>

\* ---- the metrics recorder (metrics.py) used from several threads ----

Threads == 1..MaxThreads

\* the arguments the threads pass: record_ingest(count), record_error(count),
\* record_latency(ms)
Counts == 1..2
Millis == 1..2

\* the module's globals after import (and after reset()); lock is 0 when
\* _lock is free and the thread that holds it otherwise. _errors is the
\* variable errors
NewMetrics == [lock |-> 0, messages |-> 0, latencies |-> <<>>]

\* a thread that is in no call of the module
Idle == [pc |-> "idle", op |-> "none", arg |-> 0, local |-> 0,
         msgs |-> 0, errs |-> 0, lat_copy |-> <<>>, done |-> 0]

\* nothing recorded since the last reset(): the sums of the counts passed to
\* record_ingest and record_error, and the number of record_latency calls
NothingRecorded == [ingest |-> 0, error |-> 0, latency |-> 0]

\* a lock that lets every thread in
acquire_unlocked(lk) == TRUE

\* `with _lock:` can be entered: threading.Lock is free
acquire(lk) == lk = 0

\* a `with _lock:` whose exit keeps the lock
release_kept(lk) == lk

\* the exit of `with _lock:`
release(lk) == 0

\* sorted(lat_copy): insertion of each sample into the sorted prefix
RECURSIVE Insert(_, _)
Insert(s, x) ==
    IF s = <<>> THEN <<x>>
    ELSE IF x <= Head(s) THEN <<x>> \o s
    ELSE <<Head(s)>> \o Insert(Tail(s), x)

RECURSIVE sorted(_)
sorted(s) == IF s = <<>> THEN <<>> ELSE Insert(sorted(Tail(s)), Head(s))

\* q is given in hundredths (0.50 is 50) and results are in hundredths of a
\* millisecond, so that the arithmetic of _percentile is exact
Hundred == 100

\* _percentile that rounds the index to the floor sample
percentile_floor(sorted_list, q) ==
    IF sorted_list = <<>> THEN None
    ELSE LET n == Len(sorted_list)
             f == ((n - 1) * q) \div Hundred
         IN IF f >= n - 1 THEN [value |-> Hundred * sorted_list[n]]
            ELSE [value |-> Hundred * sorted_list[f + 1]]

\* _percentile(sorted_list, q): k_float = (n - 1) * q, f = int(k_float),
\* the last sample if f >= n - 1, else
\* sorted_list[f] + frac * (sorted_list[c] - sorted_list[f])
percentile(sorted_list, q) ==
    IF sorted_list = <<>> THEN None
    ELSE LET n == Len(sorted_list)
             k == (n - 1) * q
             f == k \div Hundred
             c == f + 1
             frac == k - Hundred * f
         IN IF f >= n - 1 THEN [value |-> Hundred * sorted_list[n]]
            ELSE [value |-> Hundred * sorted_list[f + 1]
                            + frac * (sorted_list[c + 1] - sorted_list[f + 1])]

\* the part of get_metrics after the critical section, computed from the
\* copies alone (throughput and uptime are clock readings and are left out)
statistics(msgs, errs, lat_copy) ==
    [messages_total |-> msgs,
     errors_total |-> errs,
     latency |-> IF lat_copy = <<>> THEN None
                 ELSE LET lat_sorted == sorted(lat_copy)
                      IN [count |-> Len(lat_sorted),
                          min_ms |-> lat_sorted[1],
                          max_ms |-> lat_sorted[Len(lat_sorted)],
                          p50_ms |-> percentile(lat_sorted, 50).value,
                          p95_ms |-> percentile(lat_sorted, 95).value,
                          p99_ms |-> percentile(lat_sorted, 99).value]]

\* what a call has recorded once it is over
Recorded(rec, th) ==
    CASE th.op = "record_ingest" -> [rec EXCEPT !.ingest = @ + th.arg]
      [] th.op = "record_error" -> [rec EXCEPT !.error = @ + th.arg]
      [] th.op = "record_latency" -> [rec EXCEPT !.latency = @ + 1]
      [] th.op = "reset" -> NothingRecorded
      [] OTHER -> rec

\* a thread calls record_ingest(count) or record_error(count): it enters
\* `with _lock:` and loads the global it is about to add to
EnterCount(t) ==
    /\ threads[t].pc = "idle"
    /\ threads[t].done < MaxCalls
    /\ acquire(recorder.lock)
    /\ \E op \in {"record_ingest", "record_error"}, count \in Counts :
          threads' = [threads EXCEPT ![t].pc = "loaded", ![t].op = op,
                                     ![t].arg = count,
                                     ![t].local = IF op = "record_ingest"
                                                  THEN recorder.messages
                                                  ELSE errors]
    /\ recorder' = [recorder EXCEPT !.lock = t]
    /\ UNCHANGED <<errors, recorded, snapshot>>
    /\ UNCHANGED metricsRest

\* the thread stores the sum and leaves the `with` block
LeaveCount(t) ==
    /\ threads[t].pc = "loaded"
    /\ IF threads[t].op = "record_ingest"
       THEN /\ recorder' = [recorder EXCEPT !.messages = threads[t].local + threads[t].arg,
                                          !.lock = release(@)]
            /\ UNCHANGED errors
       ELSE /\ errors' = record_error(threads[t].local, threads[t].arg)
            /\ recorder' = [recorder EXCEPT !.lock = release(@)]
    /\ recorded' = Recorded(recorded, threads[t])
    /\ threads' = [threads EXCEPT ![t] = [Idle EXCEPT !.done = threads[t].done + 1]]
    /\ UNCHANGED snapshot
    /\ UNCHANGED metricsRest

\* record_latency(ms): `with _lock: _latencies.append(float(ms))`
RecordLatency(t) ==
    /\ threads[t].pc = "idle"
    /\ threads[t].done < MaxCalls
    /\ acquire(recorder.lock)
    /\ \E ms \in Millis :
          /\ recorder' = [recorder EXCEPT !.latencies = Append(@, ms)]
          /\ recorded' = Recorded(recorded, [op |-> "record_latency", arg |-> ms])
    /\ threads' = [threads EXCEPT ![t].done = @ + 1]
    /\ UNCHANGED <<errors, snapshot>>
    /\ UNCHANGED metricsRest

\* reset(): the three globals are set again inside one `with _lock:`
Reset(t) ==
    /\ threads[t].pc = "idle"
    /\ threads[t].done < MaxCalls
    /\ acquire(recorder.lock)
    /\ recorder' = [NewMetrics EXCEPT !.lock = recorder.lock]
    /\ errors' = 0
    /\ recorded' = Recorded(recorded, [op |-> "reset", arg |-> 0])
    /\ threads' = [threads EXCEPT ![t].done = @ + 1]
    /\ UNCHANGED snapshot
    /\ UNCHANGED metricsRest

\* get_metrics(): the thread enters `with _lock:` and copies _messages
CopyMessages(t) ==
    /\ threads[t].pc = "idle"
    /\ threads[t].done < MaxCalls
    /\ acquire(recorder.lock)
    /\ threads' = [threads EXCEPT ![t].pc = "copy_errs", ![t].op = "get_metrics",
                                 ![t].msgs = recorder.messages]
    /\ recorder' = [recorder EXCEPT !.lock = t]
    /\ UNCHANGED <<errors, recorded, snapshot>>
    /\ UNCHANGED metricsRest

\* get_metrics(): errs = _errors
CopyErrors(t) ==
    /\ threads[t].pc = "copy_errs"
    /\ threads' = [threads EXCEPT ![t].pc = "copy_lat", ![t].errs = errors]
    /\ UNCHANGED <<recorder, errors, recorded, snapshot>>
    /\ UNCHANGED metricsRest

\* get_metrics(): lat_copy = list(_latencies), then the `with` block ends
CopyLatencies(t) ==
    /\ threads[t].pc = "copy_lat"
    /\ threads' = [threads EXCEPT ![t].pc = "computing",
                                 ![t].lat_copy = recorder.latencies]
    /\ recorder' = [recorder EXCEPT !.lock = release(@)]
    /\ UNCHANGED <<errors, recorded, snapshot>>
    /\ UNCHANGED metricsRest

\* get_metrics(): the statistics are computed from the copies and returned
Compute(t) ==
    /\ threads[t].pc = "computing"
    /\ threads' = [threads EXCEPT ![t] = [Idle EXCEPT !.done = threads[t].done + 1]]
    /\ snapshot' = statistics(threads[t].msgs, threads[t].errs, threads[t].lat_copy)
    /\ UNCHANGED <<recorder, errors, recorded>>
    /\ UNCHANGED metricsRest

\* ---- _percentile (metrics.py) on its own ----

\* the sorted sample lists _percentile is given: every sorted list of up to
\* MaxSamples latencies out of 0..MaxLatency, and the ten samples 1, .., 10
SortedLists ==
    {s \in UNION {[1..n -> 0..MaxLatency] : n \in 0..MaxSamples} :
        \A x \in 1..(Len(s) - 1) : s[x] <= s[x + 1]}
OneToTen == [x \in 1..10 |-> x]

\* q in hundredths: 0, the quartiles, the q of p95_ms and p99_ms, and 1
Quantiles == {0, 25, 50, 75, 95, 99, Hundred}

\* no call of _percentile
NoSample == [pc |-> "none", sorted_list |-> <<>>, q |-> 0, p_value |-> None]

\* a call _percentile(sorted_list, q) that has not run yet
Called(sorted_list, q) ==
    [pc |-> "called", sorted_list |-> sorted_list, q |-> q, p_value |-> None]

\* the call runs and returns p_value (None for the empty list)
Percentile ==
    /\ sample.pc = "called"
    /\ sample' = [sample EXCEPT !.pc = "returned",
                               !.p_value = percentile(sample.sorted_list, sample.q)]
    /\ UNCHANGED <<engineVars, tcpVars, metricsVars, reader>>

\* ---- the file readers (mbo_reader.py and tcp_server.py) ----

\* A line of the file is the sequence of its comma-separated fields, each
\* one a text without surrounding blanks (so that strip() has nothing to
\* remove).  The header line, which load reads and drops first, is left out.

\* int(text) and float(text): the number the text denotes, or ValueError.
\* Prices are whole numbers of the currency unit
Numbers == ("0" :> 0) @@ ("1" :> 1) @@ ("1000" :> 1000)
int(text) ==
    IF text \in DOMAIN Numbers THEN [raised |-> FALSE, value |-> Numbers[text]]
    ELSE [raised |-> TRUE, value |-> 0]
float(text) == int(text)

\* str.upper() and str.lower() on the texts of the type and side fields
upper(text) ==
    CASE text = "new" -> "NEW"
      [] OTHER -> text
lower(text) ==
    CASE text = "Buy" -> "buy"
      [] text = "B" -> "b"
      [] text = "SELL" -> "sell"
      [] OTHER -> Lower(text)

\* the side words _parse_line of mbo_reader.py accepts
BidWords == {"bid", "buy", "b"}
AskWords == {"ask", "sell", "s"}

\* MBOFileReader._parse_line of mbo_reader.py on the fields of a line: None
\* or the message; it catches ValueError and IndexError itself
parse_line(parts) ==
    IF Len(parts) < 7 THEN [raised |-> FALSE, message |-> None]
    ELSE IF int(parts[1]).raised THEN [raised |-> FALSE, message |-> None]
    ELSE LET msg_type == upper(parts[2])
             side == lower(parts[5])
             price == IF float(parts[6]).raised THEN 0 ELSE float(parts[6]).value
             size == IF int(parts[7]).raised THEN 0 ELSE int(parts[7]).value
         IN IF msg_type \notin {"NEW", "CANCEL", "MODIFY", "EXECUTE"}
            THEN [raised |-> FALSE, message |-> None]
            ELSE IF side \notin BidWords \cup AskWords
            THEN [raised |-> FALSE, message |-> None]
            ELSE IF msg_type = "NEW" /\ (price <= 0 \/ size <= 0)
            THEN [raised |-> FALSE, message |-> None]
            ELSE [raised |-> FALSE,
                  message |-> [timestamp |-> int(parts[1]).value,
                               type |-> msg_type,
                               order_id |-> parts[3],
                               symbol |-> upper(parts[4]),
                               side |-> IF side \in BidWords THEN "bid" ELSE "ask",
                               price |-> price,
                               size |-> size]]

\* MBOFileReader._parse_line of tcp_server.py: None for fewer than 7 fields,
\* else the dict; int() and float() may raise ValueError
tcp_parse_line(parts) ==
    IF Len(parts) < 7 THEN [raised |-> FALSE, message |-> None]
    ELSE IF int(parts[1]).raised \/ float(parts[6]).raised \/ int(parts[7]).raised
    THEN [raised |-> TRUE, message |-> None]
    ELSE [raised |-> FALSE,
          message |-> [timestamp |-> int(parts[1]).value,
                       type |-> upper(parts[2]),
                       order_id |-> parts[3],
                       symbol |-> parts[4],
                       side |-> lower(parts[5]),
                       price |-> float(parts[6]).value,
                       size |-> int(parts[7]).value]]

\* `if not line or line.startswith('#'): continue`
Skipped(line) == line = <<"">> \/ line = <<"# comment">>

\* the loop of MBOFileReader.load of mbo_reader.py over the lines after the
\* header: the message of a line is appended, an exception of _parse_line
\* is counted in errors
RECURSIVE load(_)
load(lines) ==
    IF lines = <<>> THEN [messages |-> <<>>, errors |-> 0]
    ELSE LET before == load(SubSeq(lines, 1, Len(lines) - 1))
             line == lines[Len(lines)]
             parsed == parse_line(line)
         IN IF Skipped(line) THEN before
            ELSE IF parsed.raised THEN [before EXCEPT !.errors = @ + 1]
            ELSE IF parsed.message # None
            THEN [before EXCEPT !.messages = Append(@, parsed.message)]
            ELSE before

\* the loop of MBOFileReader.load of tcp_server.py: an exception of
\* _parse_line is logged; this reader has no errors attribute
RECURSIVE tcp_load(_)
tcp_load(lines) ==
    IF lines = <<>> THEN [messages |-> <<>>, errors |-> None]
    ELSE LET before == tcp_load(SubSeq(lines, 1, Len(lines) - 1))
             line == lines[Len(lines)]
             parsed == tcp_parse_line(line)
         IN IF Skipped(line) THEN before
            ELSE IF parsed.raised THEN before
            ELSE IF parsed.message # None
            THEN [before EXCEPT !.messages = Append(@, parsed.message)]
            ELSE before

\* load of either reader
loaded(module, lines) ==
    IF module = "mbo_reader" THEN load(lines) ELSE tcp_load(lines)

\* the data lines of the files: a well-formed NEW record, the records that
\* differ from it in one field, and a line that is no record
\* (the order_id text, which both readers pass on as it is, is written as
\* the order_id it stands for)
GoodLine == <<"1000", "NEW", MaxOrderId, "AAPL", "bid", "1", "1">>
FileLines ==
    {GoodLine}
        \cup {[GoodLine EXCEPT ![v[1]] = v[2]] :
                 v \in {<<1, "x">>, <<2, "new">>, <<2, "CANCEL">>, <<2, "BOGUS">>,
                        <<5, "buy">>, <<5, "Buy">>, <<5, "B">>, <<5, "ask">>,
                        <<5, "SELL">>, <<5, "s">>, <<5, "x">>, <<6, "0">>,
                        <<6, "x">>, <<7, "0">>, <<7, "x">>}}
        \cup {<<"invalid line here">>, <<"">>, <<"# comment">>}
Files == UNION {[1..n -> FileLines] : n \in 0..MaxLines}

\* no reader
NoReader == [module |-> "none", pc |-> "none", lines |-> <<>>,
             messages |-> <<>>, errors |-> None, fed |-> 0]

\* MBOFileReader.__init__ of the reader of a module, on a file
NewReader(module, lines) ==
    [module |-> module, pc |-> "new", lines |-> lines, messages |-> <<>>,
     errors |-> IF module = "mbo_reader" THEN 0 ELSE None, fed |-> 0]

\* reader.load()
Load ==
    /\ reader.pc = "new"
    /\ reader' = [reader EXCEPT !.pc = "loaded",
                               !.messages = loaded(reader.module, reader.lines).messages,
                               !.errors = loaded(reader.module, reader.lines).errors]
    /\ UNCHANGED <<engineVars, tcpVars, metricsVars, sample>>

\* `for msg in messages: order_book.apply(msg)`, one message
Feed ==
    /\ reader.pc = "loaded"
    /\ reader.fed < Len(reader.messages)
    /\ LET r == applied(heap, books, reader.messages[reader.fed + 1])
       IN /\ heap' = r.heap
          /\ books' = r.books
    /\ reader' = [reader EXCEPT !.fed = @ + 1]
    /\ UNCHANGED <<errors, reconstructor, tcpVars, metricsVars, sample>>

\* OrderBookReconstructor.__init__
NewReconstructor == [books |-> <<>>, message_count |-> 0, latencies |-> <<>>]

\* OrderBook.__init__; metrics._errors = 0; a fresh OrderBookReconstructor
Constructed ==
    /\ heap = <<>>
    /\ books = <<>>
    /\ errors = 0
    /\ reconstructor = NewReconstructor
    /\ server = NewServer
    /\ stream = NoStream
    /\ conns = [w \in Writers |-> NoConnection]
    /\ calls = <<>>
    /\ recorder = NewMetrics
    /\ threads = [t \in Threads |-> Idle]
    /\ recorded = NothingRecorded
    /\ snapshot = None

\* the state after construction: no call of _percentile, no reader
Init ==
    /\ Constructed
    /\ sample = NoSample
    /\ reader = NoReader

Next ==
    \/ ApplyNew
    \/ ApplyCancel
    \/ ApplyModify
    \/ ApplyExecute

Spec == Init /\ [][Next]_vars

\* the feed of two symbols, which use the same order_id
SharedOrderIds == {MaxOrderId}
EventTwo(t) ==
    [type : {t}, symbol : TwoSymbols, order_id : SharedOrderIds, side : Sides,
     price : Prices, size : Sizes]
EventsTwo == EventTwo("NEW") \cup EventTwo("CANCEL") \cup EventTwo("MODIFY")
                \cup EventTwo("EXECUTE")

ApplyTwo == \E e \in EventsTwo : apply(e)

SpecTwo == Init /\ [][ApplyTwo]_vars

\* the decoded lines of a level-update stream, and lines without "type"
LineSides == Sides \cup {"BID"}
Lines ==
    [type : {"NEW"}, symbol : TwoSymbols, side : LineSides, price : Prices,
     size : Sizes]
LinesWithoutType == {Without(l, "type") : l \in Lines}

\* OrderBookReconstructor.apply(line); a line that raises leaves the
\* reconstructor as it is
ReconstructorApply ==
    /\ reconstructor.message_count < MaxMessages
    /\ \E l \in Lines \cup LinesWithoutType :
          reconstructor' = reconstructor_apply(reconstructor, l).self
    /\ UNCHANGED <<heap, books, errors>>
    /\ UNCHANGED <<tcpVars, auxVars>>

SpecMBP == Init /\ [][ReconstructorApply]_vars

\* event dicts a feed can hand to apply besides the well-formed ones: without
\* symbol, without type, of a type no handler exists for, and lacking a key
\* the handler reads
WithoutSymbol == {Without(e, "symbol") : e \in Event("NEW")}
WithoutType == {Without(e, "type") : e \in Event("NEW")}
UnknownType == Event("TRADE")
WithoutOrderId == {Without(e, "order_id") : e \in Events}
ModifyWithoutLevel ==
    [type : {"MODIFY"}, symbol : Symbols, order_id : OrderIds, size : Sizes]
MalformedEvents ==
    WithoutSymbol \cup WithoutType \cup UnknownType \cup WithoutOrderId
        \cup ModifyWithoutLevel

ApplyMalformed == \E e \in MalformedEvents : apply(e)

\* the feed with malformed events among the well-formed ones
NextRaw == Next \/ ApplyMalformed

SpecRaw == Init /\ [][NextRaw]_vars

\* ---- views of the book used by the properties ----

\* the queue of a price level, empty when the level is absent
QueueAt(b, lv, p) == IF p \in DOMAIN b[lv] THEN b[lv][p] ELSE <<>>

\* the order_ids queued at a price level, head first
IdsAt(h, b, lv, p) ==
    LET q == QueueAt(b, lv, p) IN [i \in 1..Len(q) |-> h[q[i]].order_id]

\* the dicts queued at a price level, head first
DictsAt(h, b, lv, p) ==
    LET q == QueueAt(b, lv, p) IN [i \in 1..Len(q) |-> h[q[i]]]

\* a sequence of order_ids without one of them
IdsWithout(ids, id) == SelectSeq(ids, LAMBDA x : x # id)

\* the places <<level name, price, position>> where a book queues an order_id
Entries(h, b, id) ==
    UNION {UNION {{<<lv, p, i>> : i \in {j \in 1..Len(b[lv][p]) : h[b[lv][p][j]].order_id = id}}
                  : p \in DOMAIN b[lv]} : lv \in LevelNames}

Resident(e) == e.symbol \in DOMAIN books /\ e.order_id \in DOMAIN books[e.symbol].orders

\* ---- C1 ----
\* C1: every event leaves the orders of every price-level queue in the order
\* in which they were inserted: the orders it does not touch keep their
\* relative order in their queue, and an order inserted by NEW (or re-inserted
\* by MODIFY) is at the tail of the queue of its (side, price), behind every
\* order already there.
C1_FifoInsertionOrder ==
    \A e \in Events :
        LET r == applied(heap, books, e)
            b0 == BookOf(books, e.symbol)
            b1 == r.books[e.symbol]
            inserted == e.type = "MODIFY" \/ (e.type = "NEW" /\ ~ Resident(e))
        IN \A lv \in LevelNames, p \in Prices :
              LET old == IdsAt(heap, b0, lv, p)
                  new == IdsAt(r.heap, b1, lv, p)
              IN /\ IdsWithout(new, e.order_id) = IdsWithout(old, e.order_id)
                 /\ (inserted /\ lv = LevelOf(e.side) /\ p = e.price)
                       => new = Append(IdsWithout(old, e.order_id), e.order_id)

\* a NEW has queued an order behind a resident one
C1_Witness ==
    \E s \in DOMAIN books, lv \in LevelNames :
        \E p \in DOMAIN books[s][lv] :
            /\ Len(books[s][lv][p]) >= 2
            /\ heap[books[s][lv][p][2]].type = "NEW"

\* ---- C2 ----
\* C2: an order_id is a key of _orders if and only if exactly one entry for it
\* exists across all bid and ask queues, and that entry is the object _orders
\* holds, in the queue for the side and price that object records.
C2_LookupMatchesLevels ==
    \A s \in DOMAIN books :
        \A id \in OrderIds :
            LET b == books[s]
                E == Entries(heap, b, id)
            IN /\ (id \in DOMAIN b.orders) <=> (Cardinality(E) = 1)
               /\ id \in DOMAIN b.orders =>
                    LET o == b.orders[id]
                    IN \A x \in E :
                          /\ b[x[1]][x[2]][x[3]] = o
                          /\ x[1] = LevelOf(heap[o].side)
                          /\ x[2] = heap[o].price

\* two orders are resident, one of them re-inserted by a MODIFY, and a
\* removal of one of them leaves the other
C2_Witness ==
    \E s \in DOMAIN books :
        /\ Cardinality(DOMAIN books[s].orders) = 2
        /\ \E id \in DOMAIN books[s].orders : heap[books[s].orders[id]].type = "MODIFY"
        /\ \E e \in Event("CANCEL") :
              /\ Resident(e)
              /\ Cardinality(DOMAIN applied(heap, books, e).books[s].orders) = 1

\* ---- C3 ----
\* C3: every order held in a price-level queue has size > 0.
C3_PositiveSizes ==
    \A s \in DOMAIN books, lv \in LevelNames :
        \A p \in DOMAIN books[s][lv] :
            \A i \in 1..Len(books[s][lv][p]) : heap[books[s][lv][p][i]].size > 0

\* ---- C4 ----
\* C4: neither the bid index nor the ask index contains a price whose queue
\* is empty.
C4_NoEmptyLevel ==
    \A s \in DOMAIN books, lv \in LevelNames :
        \A p \in DOMAIN books[s][lv] : Len(books[s][lv][p]) > 0

\* the last order of a level is resident, and CANCEL, MODIFY and EXECUTE each
\* return the book without that level
C4_Witness ==
    \E s \in DOMAIN books, lv \in LevelNames :
        \E p \in DOMAIN books[s][lv] :
            /\ Len(books[s][lv][p]) = 1
            /\ \A t \in {"CANCEL", "MODIFY", "EXECUTE"} :
                  \E e \in Event(t) :
                      /\ e.symbol = s
                      /\ e.order_id = heap[books[s][lv][p][1]].order_id
                      /\ p \notin DOMAIN applied(heap, books, e).books[s][lv]

\* ---- C5 ----
\* C5: a MODIFY of a resident order removes it from its level and re-inserts
\* the MODIFY message at the tail of the level of the message's side and
\* price, carrying the message's size: the queue there is the orders that
\* were already there, the modified order excepted, followed by the modified
\* order -- also when only the size changed.
C5_ModifyLosesPriority ==
    \A e \in Event("MODIFY") :
        Resident(e) =>
            LET r == applied(heap, books, e)
                b0 == books[e.symbol]
                b1 == r.books[e.symbol]
                others(ds) == SelectSeq(ds, LAMBDA d : d.order_id # e.order_id)
            IN /\ ~ r.caught
               /\ e.order_id \in DOMAIN b1.orders
               /\ r.heap[b1.orders[e.order_id]] = e
               /\ \A lv \in LevelNames, p \in Prices :
                     DictsAt(r.heap, b1, lv, p) =
                        IF lv = LevelOf(e.side) /\ p = e.price
                        THEN Append(others(DictsAt(heap, b0, lv, p)), e)
                        ELSE others(DictsAt(heap, b0, lv, p))

\* A is queued ahead of B, and a MODIFY of A that changes only its size
\* leaves the queue [B, A]
C5_Witness ==
    \E e \in Event("MODIFY") :
        /\ Resident(e)
        /\ LET o == heap[books[e.symbol].orders[e.order_id]]
               lv == LevelOf(e.side)
           IN /\ o.side = e.side /\ o.price = e.price /\ o.size # e.size
              /\ Len(IdsAt(heap, books[e.symbol], lv, e.price)) = 2
              /\ IdsAt(heap, books[e.symbol], lv, e.price)[1] = e.order_id
              /\ LET r == applied(heap, books, e)
                     ids == IdsAt(r.heap, r.books[e.symbol], lv, e.price)
                 IN /\ Len(ids) = 2
                    /\ ids[2] = e.order_id
                    /\ ids[1] # e.order_id

\* ---- C6 ----
\* C6: no dict the book holds has a negative size, no EXECUTE makes the
\* handler raise, and an EXECUTE whose size is greater than or equal to the
\* resident order's size removes the order from the lookup table and from
\* its level.
C6_ExecuteCapped ==
    /\ \A x \in DOMAIN heap : heap[x].size >= 0
    /\ \A e \in Event("EXECUTE") :
          LET r == applied(heap, books, e)
          IN /\ ~ r.caught
             /\ \A x \in DOMAIN r.heap : r.heap[x].size >= 0
             /\ (Resident(e) /\ e.size >= heap[books[e.symbol].orders[e.order_id]].size)
                   => /\ e.order_id \notin DOMAIN r.books[e.symbol].orders
                      /\ Entries(r.heap, r.books[e.symbol], e.order_id) = {}

\* an order of positive size is resident and an EXECUTE of a greater size
\* removes it
C6_Witness ==
    \E e \in Event("EXECUTE") :
        /\ Resident(e)
        /\ heap[books[e.symbol].orders[e.order_id]].size > 0
        /\ e.size > heap[books[e.symbol].orders[e.order_id]].size
        /\ e.order_id \notin DOMAIN applied(heap, books, e).books[e.symbol].orders

\* ---- C7 ----
\* C7: an EXECUTE smaller than the resident size reduces the size of that
\* order's dict by exactly the executed size; the lookup table and every
\* price-level queue hold the same objects at the same positions, and every
\* other dict is unchanged.
C7_PartialFillInPlace ==
    \A e \in Event("EXECUTE") :
        (Resident(e) /\ e.size < heap[books[e.symbol].orders[e.order_id]].size) =>
            LET r == applied(heap, books, e)
                o == books[e.symbol].orders[e.order_id]
            IN /\ r.books = books
               /\ DOMAIN r.heap = DOMAIN heap
               /\ r.heap[o].size = heap[o].size - e.size
               /\ \A f \in (DOMAIN heap[o]) \ {"size"} : r.heap[o][f] = heap[o][f]
               /\ \A x \in (DOMAIN heap) \ {o} : r.heap[x] = heap[x]

\* the head of a queue of two is partially filled and stays the head
C7_Witness ==
    \E e \in Event("EXECUTE") :
        /\ Resident(e)
        /\ e.size > 0
        /\ e.size < heap[books[e.symbol].orders[e.order_id]].size
        /\ LET o == heap[books[e.symbol].orders[e.order_id]]
               r == applied(heap, books, e)
               ids == IdsAt(r.heap, r.books[e.symbol], LevelOf(o.side), o.price)
           IN /\ Len(ids) = 2
              /\ ids[1] = e.order_id
              /\ r.heap[r.books[e.symbol].orders[e.order_id]].size = o.size - e.size

\* ---- C8 ----
\* C8: a CANCEL for a resident order_id removes that order from the lookup
\* table and from its queue, whatever side and price the CANCEL message
\* carries; every other order stays in the lookup table, and every queue is
\* the queue it was with the cancelled order taken out.
C8_CancelRemovesExactlyThatOrder ==
    \A e \in Event("CANCEL") :
        Resident(e) =>
            LET r == applied(heap, books, e)
                b0 == books[e.symbol]
                b1 == r.books[e.symbol]
                others(ds) == SelectSeq(ds, LAMBDA d : d.order_id # e.order_id)
            IN /\ ~ r.caught
               /\ DOMAIN b1.orders = (DOMAIN b0.orders) \ {e.order_id}
               /\ \A k \in DOMAIN b1.orders : r.heap[b1.orders[k]] = heap[b0.orders[k]]
               /\ \A lv \in LevelNames, p \in Prices :
                     DictsAt(r.heap, b1, lv, p) = others(DictsAt(heap, b0, lv, p))

\* two orders share a queue and a CANCEL that names another side and another
\* price than the resident order's removes the first of them
C8_Witness ==
    \E e \in Event("CANCEL") :
        /\ Resident(e)
        /\ LET o == heap[books[e.symbol].orders[e.order_id]]
               lv == LevelOf(o.side)
               r == applied(heap, books, e)
           IN /\ o.side # e.side /\ o.price # e.price
              /\ Len(IdsAt(heap, books[e.symbol], lv, o.price)) = 2
              /\ IdsAt(heap, books[e.symbol], lv, o.price)[1] = e.order_id
              /\ Len(IdsAt(r.heap, r.books[e.symbol], lv, o.price)) = 1

\* ---- C9 ----
\* C9: a NEW whose order_id is already resident leaves the lookup table,
\* every price-level queue and every dict they hold exactly as they were,
\* and the handler does not raise.
C9_DuplicateNewDropped ==
    \A e \in Event("NEW") :
        Resident(e) =>
            LET r == applied(heap, books, e)
            IN /\ ~ r.caught
               /\ r.books = books
               /\ r.heap = heap

\* an order is resident and a NEW of the same order_id with another side,
\* price and size arrives
C9_Witness ==
    \E e \in Event("NEW") :
        /\ Resident(e)
        /\ LET o == heap[books[e.symbol].orders[e.order_id]]
           IN o.side # e.side /\ o.price # e.price /\ o.size # e.size
        /\ applied(heap, books, e).books = books

\* ---- C10 ----
\* C10: a CANCEL or an EXECUTE whose order_id is not resident leaves the
\* lookup table and the price levels of the symbol's book (empty ones when
\* the event is the first of its symbol) and all dicts as they were, and the
\* handler does not raise.
C10_UnknownOrderIdNoOp ==
    \A e \in Event("CANCEL") \cup Event("EXECUTE") :
        ~ Resident(e) =>
            LET r == applied(heap, books, e)
            IN /\ ~ r.caught
               /\ r.heap = heap
               /\ r.books[e.symbol] = BookOf(books, e.symbol)
               /\ \A s \in (DOMAIN books) \ {e.symbol} : r.books[s] = books[s]
               /\ DOMAIN r.books = (DOMAIN books) \cup {e.symbol}

\* the book holds an order and a CANCEL and an EXECUTE for another order_id
\* arrive
C10_Witness ==
    \E s \in DOMAIN books :
        /\ DOMAIN books[s].orders # {}
        /\ \A t \in {"CANCEL", "EXECUTE"} :
              \E e \in Event(t) :
                  /\ e.symbol = s
                  /\ ~ Resident(e)
                  /\ applied(heap, books, e).books = books

\* ---- C11 ----
\* C11: a MODIFY whose order_id is not resident leaves the book that a NEW
\* with the same fields leaves: the same lookup table and the same queues,
\* the message at the tail of the queue of its (side, price); only the type
\* the stored message carries differs.
C11_ModifyUnknownIsNew ==
    \A e \in Event("MODIFY") :
        ~ Resident(e) =>
            LET r == applied(heap, books, e)
                asNew == [e EXCEPT !.type = "NEW"]
                n == applied(heap, books, asNew)
                b1 == r.books[e.symbol]
                q == QueueAt(b1, LevelOf(e.side), e.price)
            IN /\ r.books = n.books
               /\ r.caught = n.caught
               /\ DOMAIN r.heap = DOMAIN n.heap
               /\ \A x \in DOMAIN r.heap :
                     \/ r.heap[x] = n.heap[x]
                     \/ r.heap[x] = e /\ n.heap[x] = asNew
               /\ e.order_id \in DOMAIN b1.orders
               /\ r.heap[b1.orders[e.order_id]] = e
               /\ q # <<>>
               /\ q[Len(q)] = b1.orders[e.order_id]
               /\ SubSeq(IdsAt(r.heap, b1, LevelOf(e.side), e.price), 1, Len(q) - 1)
                     = IdsAt(heap, BookOf(books, e.symbol), LevelOf(e.side), e.price)

\* a MODIFY for an unknown order_id has been queued behind a resident order
C11_Witness ==
    \E s \in DOMAIN books, lv \in LevelNames :
        \E p \in DOMAIN books[s][lv] :
            /\ Len(books[s][lv][p]) = 2
            /\ heap[books[s][lv][p][1]].type = "NEW"
            /\ heap[books[s][lv][p][2]].type = "MODIFY"
            /\ \E e \in Event("MODIFY") :
                  /\ e.order_id = heap[books[s][lv][p][2]].order_id
                  /\ e.symbol = s
                  /\ LET c == applied(heap, books, [e EXCEPT !.type = "CANCEL"])
                     IN applied(c.heap, c.books, e).books = books

\* ---- C12 ----
\* events of the four types with a negative price, a negative size or a side
\* that is neither bid nor ask
InvalidEvents ==
    {e \in [type : {"NEW", "CANCEL", "MODIFY", "EXECUTE"}, symbol : Symbols,
            order_id : OrderIds, side : Sides \cup {"invalid"},
            price : Prices \cup {-1}, size : Sizes \cup {-1}] :
        e.price < 0 \/ e.size < 0 \/ e.side \notin Sides}

\* C12: an event with a negative price, a negative size or a side other than
\* bid/ask is rejected and leaves the book unchanged: the lookup table and
\* the price levels of its symbol, and the orders they hold, are as before.
C12_InvalidEventRejected ==
    \A e \in InvalidEvents :
        LET r == applied(heap, books, e)
        IN /\ BookOf(r.books, e.symbol) = BookOf(books, e.symbol)
           /\ r.heap = heap

\* ---- C13 ----
\* C13: an event whose handler fails leaves the lookup table and the price
\* levels of its book, and the orders they hold, exactly as they were; no
\* resident order disappears because an event failed part-way.
C13_AllOrNothing ==
    \A e \in Events \cup ModifyWithoutLevel :
        LET r == applied(heap, books, e)
        IN r.caught =>
              /\ BookOf(r.books, e.symbol) = BookOf(books, e.symbol)
              /\ r.heap = heap

\* ---- C14 ----
\* a NEW for every order_id and side, at the top price and size
ProbeEvents == {f \in Event("NEW") : f.price = MaxPrice /\ f.size = MaxSize}

EngineError(e) ==
    \/ applied(heap, books, e).caught
    \/ /\ e \in Events
       /\ \/ e.type = "NEW" /\ Resident(e)
          \/ e.type \in {"CANCEL", "EXECUTE"} /\ ~ Resident(e)

\* C15: every apply of an event that is a non-fatal engine error increments
\* the error counter of the Metrics Recorder by one.
C15_ErrorsCounted ==
    [][\A e \in Events \cup MalformedEvents :
          (EngineError(e) /\ apply(e)) => errors' = record_error(errors, 1)]_vars

\* ---- C16 ----
\* C16: get_bba returns the highest resident bid price and the lowest
\* resident ask price, 0 for an empty side, and as the depth of each side the
\* sum of the sizes of the orders queued at that best price, prices being >= 0.
C16_BbaBestLevelDepth ==
    \A s \in DOMAIN books :
        LET b == books[s]
            r == get_bba(b, heap)
        IN (\A p \in DOMAIN b.bids \cup DOMAIN b.asks : p >= 0) =>
              /\ IF DOMAIN b.bids = {}
                 THEN r.best_bid = 0 /\ r.bid_size = 0
                 ELSE /\ r.best_bid \in DOMAIN b.bids
                      /\ \A p \in DOMAIN b.bids : p <= r.best_bid
                      /\ r.bid_size = SumSizes(heap, b.bids[r.best_bid])
              /\ IF DOMAIN b.asks = {}
                 THEN r.best_ask = 0 /\ r.ask_size = 0
                 ELSE /\ r.best_ask \in DOMAIN b.asks
                      /\ \A p \in DOMAIN b.asks : r.best_ask <= p
                      /\ r.ask_size = SumSizes(heap, b.asks[r.best_ask])

\* get_book's default for n
DefaultN == 5

\* ---- C17 ----
\* what a book holds: the dict of every order_id, the dicts of every queue
\* head first, and the places where the dict object of the lookup table is
\* queued
Contents(h, b) ==
    [orders |-> [k \in DOMAIN b.orders |-> h[b.orders[k]]],
     bids |-> [p \in DOMAIN b.bids |-> DictsAt(h, b, "bids", p)],
     asks |-> [p \in DOMAIN b.asks |-> DictsAt(h, b, "asks", p)],
     queued |-> [k \in DOMAIN b.orders |->
                   UNION {UNION {{<<lv, p, i>> : i \in {j \in 1..Len(b[lv][p]) :
                                                        b[lv][p][j] = b.orders[k]}}
                                 : p \in DOMAIN b[lv]} : lv \in LevelNames}]]

\* C17: an event for one symbol leaves the book of every other symbol as it
\* was (no book appears, and lookup table, price levels and queued orders are
\* unchanged), and order_ids are scoped per symbol: a NEW is inserted unless
\* its order_id is resident in the book of its own symbol, whatever the other
\* books hold.
C17_SymbolsIndependent ==
    \A e \in EventsTwo :
        LET r == applied(heap, books, e)
        IN /\ \A s \in TwoSymbols \ {e.symbol} :
                 /\ s \in DOMAIN r.books <=> s \in DOMAIN books
                 /\ s \in DOMAIN books =>
                       Contents(r.heap, r.books[s]) = Contents(heap, books[s])
           /\ (e.type = "NEW" /\ ~ Resident(e)) =>
                 /\ e.order_id \in DOMAIN BookOf(r.books, e.symbol).orders
                 /\ r.heap[r.books[e.symbol].orders[e.order_id]] = e

\* the same order_id is resident in the books of two symbols, with different
\* prices or sizes
C17_Witness ==
    \E s \in DOMAIN books, t \in DOMAIN books :
        /\ s # t
        /\ \E k \in DOMAIN books[s].orders \cap DOMAIN books[t].orders :
              LET a == heap[books[s].orders[k]]
                  b == heap[books[t].orders[k]]
              IN /\ a.symbol = s /\ b.symbol = t
                 /\ a.side # b.side
                 /\ a.size # b.size

\* ---- C18 ----
\* C18: a query for a symbol that no event has named returns an empty
\* result and raises nothing, and makes no book for the symbol: None from
\* get_bba_for_symbol and get_full_depth of the OrderBook, empty bids and asks
\* from get_book of a reconstructor, with the books as they were.
C18_UnknownSymbolQuery ==
    /\ \A s \in TwoSymbols \ DOMAIN books :
          /\ get_bba_for_symbol(books, heap, s) = [result |-> None, books |-> books]
          /\ get_full_depth(books, heap, s) = [result |-> None, books |-> books]
    /\ \A l \in Lines :
          LET rec == reconstructor_apply(reconstructor, l).self
          IN \A s \in TwoSymbols \ DOMAIN rec.books :
                get_book(rec, s, DefaultN) =
                   [result |-> [symbol |-> s, bids |-> <<>>, asks |-> <<>>],
                    books |-> rec.books]

\* one symbol has a resident order, the other has been named by no event and
\* is queried
C18_Witness ==
    \E s \in DOMAIN books, t \in TwoSymbols \ DOMAIN books :
        /\ DOMAIN books[s].orders # {}
        /\ get_bba_for_symbol(books, heap, s).result # None
        /\ get_bba_for_symbol(books, heap, t).result = None

\* ---- C19 ----
\* C19: verification reports valid = false with a violation that names the
\* crossing when the best bid is at or above the best ask, reports valid =
\* true when the best bid is strictly below the best ask or a side is empty,
\* and leaves the books as they are.
C19_VerifyDetectsCrossing ==
    \A s \in DOMAIN books :
        LET b == books[s]
            v == verify_correctness(books, heap, s)
            crossed == /\ DOMAIN b.bids # {} /\ DOMAIN b.asks # {}
                       /\ \E p \in DOMAIN b.bids, q \in DOMAIN b.asks : p >= q
        IN /\ v.books = books
           /\ crossed =>
                 /\ ~ v.valid
                 /\ \E x \in v.violations : x.check = "crossing"
           /\ ~ crossed => v.valid

\* ---- C20 ----
\* the levels of a side of a symbol in the books of a reconstructor
LevelsOf(rbooks, symbol, side_key) ==
    IF symbol \in DOMAIN rbooks THEN rbooks[symbol][side_key] ELSE <<>>

\* C20: a level update with size 0 removes the price level if it is there
\* and changes no level if it is not; an update with size > 0 sets the size of
\* the level to exactly that value; no other level changes, and applying the
\* same update twice leaves the books that applying it once leaves.
C20_LevelUpdateIdempotent ==
    \A l \in Lines :
        LET once == reconstructor_apply(reconstructor, l).self
            twice == reconstructor_apply(once, l).self
            key == IF Lower(l.side) = "bid" THEN "bids" ELSE "asks"
            before == LevelsOf(reconstructor.books, l.symbol, key)
            after == LevelsOf(once.books, l.symbol, key)
        IN /\ twice.books = once.books
           /\ l.size = 0 =>
                 /\ l.price \notin DOMAIN after
                 /\ l.price \notin DOMAIN before => after = before
           /\ l.size > 0 =>
                 /\ l.price \in DOMAIN after
                 /\ after[l.price] = l.size
           /\ DOMAIN after \ {l.price} = DOMAIN before \ {l.price}
           /\ \A p \in DOMAIN after \ {l.price} : after[p] = before[p]
           /\ \A s \in TwoSymbols, k \in LevelNames :
                 (s # l.symbol \/ k # key) =>
                    LevelsOf(once.books, s, k) = LevelsOf(reconstructor.books, s, k)

\* a level that an update has set is set again to another size, and an
\* update with size 0 arrives for a level that is not there
C20_Witness ==
    /\ reconstructor.message_count >= 2
    /\ \E s \in DOMAIN reconstructor.books, k \in LevelNames :
          /\ \E p \in DOMAIN reconstructor.books[s][k] :
                /\ reconstructor.books[s][k][p] = 1
                /\ \E l \in Lines :
                      /\ l.symbol = s /\ l.price = p /\ l.size = MaxSize
                      /\ reconstructor_apply(reconstructor, l).self.books[s][k][p] = MaxSize
          /\ \E p \in Prices \ DOMAIN reconstructor.books[s][k] :
                \E l \in Lines :
                   /\ l.symbol = s /\ l.price = p /\ l.size = 0
                   /\ reconstructor_apply(reconstructor, l).self.books = reconstructor.books

\* ---- C21 ----
\* the depths n a top-n query is made with
QueryDepths == (0..(MaxPrice + 2)) \cup {DefaultN}

\* the n best levels of a side are returned, best first: the prices of
\* `levels` are strictly ordered, there are min(n, number of resident levels)
\* of them, each is a resident level with its size, and every resident level
\* left out is worse than every level returned
BestLevels(levels, resident, n, descending) ==
    /\ Len(levels) = IF n < Cardinality(DOMAIN resident) THEN n
                     ELSE Cardinality(DOMAIN resident)
    /\ \A i \in 1..(Len(levels) - 1) :
          IF descending THEN levels[i].price > levels[i + 1].price
          ELSE levels[i].price < levels[i + 1].price
    /\ \A i \in 1..Len(levels) :
          /\ levels[i].price \in DOMAIN resident
          /\ levels[i].size = resident[levels[i].price]
    /\ \A p \in DOMAIN resident \ {levels[i].price : i \in 1..Len(levels)} :
          \A i \in 1..Len(levels) :
             IF descending THEN p < levels[i].price ELSE p > levels[i].price

\* C21: the top-n query returns the bid levels in strictly descending and the
\* ask levels in strictly ascending price order, at most n of each, and they
\* are exactly the n best resident levels of the side with their sizes.
C21_TopNSortedTruncated ==
    \A s \in DOMAIN reconstructor.books, n \in QueryDepths :
        LET r == get_book(reconstructor, s, n).result
        IN /\ r.symbol = s
           /\ BestLevels(r.bids, reconstructor.books[s].bids, n, TRUE)
           /\ BestLevels(r.asks, reconstructor.books[s].asks, n, FALSE)

\* a book with two bid and two ask levels is queried for its top level
C21_Witness ==
    \E s \in DOMAIN reconstructor.books :
        /\ Cardinality(DOMAIN reconstructor.books[s].bids) = 2
        /\ Cardinality(DOMAIN reconstructor.books[s].asks) = 2
        /\ LET r == get_book(reconstructor, s, 1).result
           IN /\ Len(r.bids) = 1 /\ r.bids[1].price = MaxPrice
              /\ Len(r.asks) = 1 /\ r.asks[1].price = 0

\* ---- the streaming distributor on its own ----

NextTcp ==
    \/ Start
    \/ Listen
    \/ CancelBinding
    \/ StreamStart
    \/ Callback
    \/ Send
    \/ DrainResume
    \/ StreamWake
    \/ StreamFinished
    \/ Cancel
    \/ \E w \in Writers :
          \/ Accept(w)
          \/ AcceptLost(w)
          \/ HandlerExit(w)
          \/ PeerClose(w)
          \/ PeerReset(w)
          \/ PeerStall(w)

SpecTcp == Init /\ [][NextTcp]_vars

\* ---- views of the distributor used by the properties ----

\* the order_ids of the event frames a receiver decodes from the bytes of a
\* connection
EventsOn(w) ==
    LET frames == SelectSeq(Received(conns[w].wire), LAMBDA m : m.type = "NEW")
    IN [x \in 1..Len(frames) |-> frames[x].order_id]

TcpTypeOK == stream.pc \in {"none", "start", "callback", "send", "drain", "sleep",
                            "done", "cancelled"}

\* C22: stream_messages invokes the callback exactly once per event and in
\* the order of the input list, also across batch boundaries and whatever
\* the subscribers do: the invocations so far are always the first events
\* of the list, the callback of an event has returned before that event is
\* broadcast and before the callback of the next one starts, and when the
\* replay is over every event has been passed to it once.
C22_CallbackOncePerEventInOrder ==
    /\ Len(calls) <= Len(messages)
    /\ \A x \in 1..Len(calls) : calls[x].message = messages[x]
    /\ stream.pc = "callback" => Len(calls) = CurrentEvent - 1
    /\ stream.pc \in {"send", "drain"} => Len(calls) = CurrentEvent
    /\ stream.pc = "done" => Len(calls) = Len(messages)

\* the replay is over, it crossed a batch boundary, one subscriber connected
\* during it and one left
C22_Witness ==
    /\ stream.pc = "done"
    /\ Len(calls) = Len(messages)
    /\ Len(messages) > batch_size
    /\ \E w \in Writers : conns[w].since > 1
    /\ \E w \in Writers : conns[w].handler = "done"

\* the number of events whose broadcast is over
Broadcast ==
    CASE stream.pc \in {"none", "start"} -> 0
      [] stream.pc \in {"callback", "send", "drain"} -> CurrentEvent - 1
      [] OTHER -> IF stream.i < Len(messages) THEN stream.i ELSE Len(messages)

\* the subscriber is registered and its peer has been reading all along
Connected(w) ==
    /\ conns[w].handler = "sleeping"
    /\ conns[w].peer = "reading"
    /\ \E x \in 1..Len(server.clients) : server.clients[x] = w

\* C23: removing a disconnecting subscriber does not disturb delivery to the
\* others: a subscriber that has stayed connected since before event e_i was
\* broadcast has received the frame of each event from e_i up to the last
\* one whose broadcast is over exactly once, and its event frames are in
\* replay order, whatever the other subscribers do.
C23_DeliveryUndisturbed ==
    \A w \in Writers :
        Connected(w) /\ stream.pc # "cancelled" =>
            LET got == EventsOn(w)
            IN /\ \A e \in conns[w].since..Broadcast :
                     Cardinality({x \in 1..Len(got) : got[x] = e}) = 1
               /\ \A x \in 1..(Len(got) - 1) : got[x] < got[x + 1]

\* ---- a replay with slow subscribers: nobody cancels, peers only stop
\* reading or are reset; the event loop runs every task that is ready ----

StreamStep ==
    \/ StreamStart
    \/ Callback
    \/ Send
    \/ DrainResume
    \/ StreamWake

NextStall ==
    \/ Start
    \/ Listen
    \/ StreamStep
    \/ StreamFinished
    \/ \E w \in Writers :
          \/ Accept(w)
          \/ PeerStall(w)
          \/ PeerReset(w)

SpecStall ==
    /\ Init
    /\ [][NextStall]_vars
    /\ WF_vars(Start)
    /\ WF_vars(Listen)
    /\ WF_vars(StreamStep)

\* C24: a slow subscriber cannot stall ingestion: although the peer of one
\* subscriber stops reading and a write to it never completes, the replay
\* loop eventually invokes the callback for every event of the list.
C24_SlowSubscriberNoStall == <>(Len(calls) = Len(messages))

\* the list iterator of broadcast_message is past the end of self.clients
\* and a write of this broadcast has failed
BroadcastEndsWithFailure ==
    /\ stream.pc = "send"
    /\ stream.k > Len(server.clients)
    /\ stream.disconnected # <<>>

\* C25: a write failure to one subscriber during a broadcast does not abort
\* the replay: when such a broadcast ends, every subscriber whose write failed
\* is out of the broadcast set, every other subscriber that was connected
\* when the broadcast began has received the frame of that event, and the
\* replay loop goes on with the next event (or ends after the last one).
C25_WriteFailureIsolated ==
    [][BroadcastEndsWithFailure =>
          /\ \A x \in 1..Len(stream.disconnected) :
                \A y \in 1..Len(server'.clients) :
                    server'.clients[y] # stream.disconnected[x]
          /\ \A w \in Writers :
                Connected(w) /\ conns[w].since <= CurrentEvent =>
                    \E x \in 1..Len(EventsOn(w)) : EventsOn(w)[x] = CurrentEvent
          /\ stream'.pc \in {"callback", "sleep", "done"}]_vars

\* the step is an invocation of the callback that raises
CallbackRaises ==
    /\ stream.pc = "callback"
    /\ calls' = Append(calls, [message |-> messages[CurrentEvent], raised |-> TRUE])

\* C26: a callback that raises on one event is isolated: metrics.errors goes
\* up by one, the broadcast of that same event to the connected subscribers
\* is started, and the loop goes on to the later events, so that a replay
\* that ends has invoked the callback on every event.
C26_CallbackFailureIsolated ==
    [][CallbackRaises =>
          /\ server'.metrics.errors = server.metrics.errors + 1
          /\ server.clients # <<>> =>
                /\ stream'.pc = "send"
                /\ stream'.k = 1
                /\ stream'.i + stream'.j = CurrentEvent
          /\ server.clients = <<>> => stream'.pc \in {"callback", "sleep", "done"}
          /\ stream'.pc = "done" => Len(calls') = Len(messages)]_vars

\* the callback raised on an event of the first batch, that event reached
\* a subscriber, and the callback was invoked on all the later events
C26_Witness ==
    /\ stream.pc = "done"
    /\ Len(calls) = Len(messages)
    /\ \E x \in 1..batch_size :
          /\ calls[x].raised
          /\ \E w \in Writers : \E y \in 1..Len(EventsOn(w)) : EventsOn(w)[y] = x
    /\ server.metrics.errors >= 1

\* C27: the first frame every subscriber receives is the WELCOME frame: on
\* every connection with bytes written to it the first frame decodes to the
\* welcome message, and every registered writer has had it written, also
\* when the connection was accepted while a broadcast was suspended.
C27_WelcomeFirst ==
    /\ \A w \in Writers :
          conns[w].wire # <<>> =>
              /\ Len(Received(conns[w].wire)) >= 1
              /\ Received(conns[w].wire)[1] = Welcome
    /\ \A x \in 1..Len(server.clients) : conns[server.clients[x]].wire # <<>>

\* a connection accepted while the broadcast of an event was suspended has
\* received the welcome frame and then the frame of that event
C27_Witness ==
    /\ stream.pc \in {"send", "drain"}
    /\ \E w \in Writers :
          /\ conns[w].since = CurrentEvent + 1
          /\ Received(conns[w].wire) = <<Welcome, messages[CurrentEvent]>>

\* C28: frames on a subscriber connection are never interleaved or torn: a
\* receiver that reads 4 bytes, takes them as a big-endian length and reads
\* exactly that many payload bytes decodes from the bytes written to a
\* connection exactly the sequence of messages sent to it, the welcome frame
\* of the handler task and the event frames of the stream task included.
C28_FramesWhole ==
    \A w \in Writers : Received(conns[w].wire) = conns[w].sent

\* a connection carries the welcome frame, written by its handler task,
\* followed by event frames, written by the stream task
C28_Witness ==
    \E w \in Writers :
        /\ Len(conns[w].sent) >= 3
        /\ conns[w].sent[1] = Welcome
        /\ conns[w].sent[2].type = "NEW"
        /\ Len(conns[w].wire) = 5 + 6 * (Len(conns[w].sent) - 1)

\* C29: after all events are replayed start() does not return and the
\* endpoint stays open until start() is cancelled: whenever the stream task
\* is done and start() has not been cancelled, start() is still inside its
\* `async with server` block and the server is running and listening; and
\* from then on the only bytes written are the WELCOME frame of a subscriber
\* that connects, which receives no event frame.
C29_ListensAfterReplay ==
    [][/\ stream'.pc = "done" /\ server'.start # "stopped" =>
              /\ server'.start \in {"streaming", "forever"}
              /\ server'.running
              /\ server'.listening
       /\ server'.start = "forever" => stream'.pc = "done"
       /\ stream.pc = "done" =>
              \A w \in Writers :
                  \/ conns'[w].sent = conns[w].sent
                  \/ /\ conns[w].handler = "none"
                     /\ conns'[w].sent = <<Welcome>>]_vars

\* the replay is over, start() waits on the future that never completes,
\* and a subscriber that connected afterwards is registered
C29_Witness ==
    /\ server.start = "forever"
    /\ Len(calls) = Len(messages)
    /\ \E w \in Writers :
          /\ conns[w].since > Len(messages)
          /\ conns[w].handler = "sleeping"
          /\ Received(conns[w].wire) = <<Welcome>>
          /\ \E x \in 1..Len(server.clients) : server.clients[x] = w

\* C30: after a replay of N events in which no callback and no transport
\* operation failed has completed, metrics.messages_sent is N and
\* metrics.errors is 0, whatever the number of subscribers (none included).
C30_MessagesSentIsN ==
    /\ stream.pc = "done"
    /\ \A x \in 1..Len(calls) : ~ calls[x].raised
    /\ \A w \in Writers : conns[w].peer \in {"none", "reading"}
    /\ server.metrics.errors = 0
    => /\ server.metrics.messages_sent = Len(messages)
       /\ server.metrics.errors = 0

\* ---- the distributor where the event loop runs every handler that is
\* ready: a keep-alive loop that can end does end ----

SpecShutdown ==
    /\ Init
    /\ [][NextTcp]_vars
    /\ \A w \in Writers : WF_vars(HandlerExit(w))

\* C31: external cancellation of start() sets running to False and closes
\* the listening endpoint, stops the replay loop (the stream task runs no
\* more and no callback is invoked afterwards), and every subscriber handler
\* eventually leaves its keep-alive loop and removes its writer from the
\* broadcast set.
C31_CancellationShutsDown ==
    /\ [](server.start = "stopped" =>
              /\ ~ server.running
              /\ ~ server.listening
              /\ stream.pc \in {"none", "done", "cancelled"})
    /\ [][server.start = "stopped" => calls' = calls]_vars
    /\ \A w \in Writers :
          (server.start = "stopped" /\ conns[w].handler = "sleeping")
              ~> (/\ conns[w].handler = "done"
                  /\ \A x \in 1..Len(server.clients) : server.clients[x] # w)

\* C39: whenever no handler is inside its connect or disconnect step (both
\* run without an await, so this is every state), metrics.clients_connected
\* is the number of writers in the broadcast set and is not negative,
\* whatever connections are accepted, writes fail, peers disconnect and
\* handlers exit.
C39_ClientsConnectedIsSetSize ==
    /\ server.metrics.clients_connected = Len(server.clients)
    /\ server.metrics.clients_connected >= 0

\* the last message written to a connection
LastSent(c) == c.sent[Len(c.sent)]

\* C38: in the replay loop the callback is applied to an event before that
\* event is broadcast, and the broadcast of an event to the connected
\* subscribers has finished before the callback of the next event is
\* invoked: a step that writes the frame of event e_i to a subscriber is
\* taken when the callback has been applied to e_1, .., e_i and to no later
\* event, and invokes no callback; and a step that invokes the callback of
\* e_i is taken when no broadcast is in progress and every frame written so
\* far is of an event before e_i.
C38_CallbackBeforeBroadcast ==
    [][/\ \A w \in Writers :
             /\ conns'[w].sent # conns[w].sent
             /\ LastSent(conns'[w]).type = "NEW"
             => /\ Len(calls) = LastSent(conns'[w]).order_id
                /\ \A x \in 1..Len(calls) : calls[x].message = messages[x]
                /\ calls' = calls
       /\ calls' # calls =>
             /\ stream.pc = "callback"
             /\ stream.k = 0
             /\ stream.writer = 0
             /\ Len(calls') = CurrentEvent
             /\ \A w \in Writers :
                   \A x \in 1..Len(EventsOn(w)) : EventsOn(w)[x] < CurrentEvent]_vars

\* the broadcast of the second event is under way: one subscriber has its
\* frame, another registered one has not yet, and the callback has been
\* applied to the first two events only
C38_Witness ==
    /\ stream.pc = "send"
    /\ CurrentEvent = 2
    /\ Len(calls) = 2
    /\ \E w, v \in Writers :
          /\ conns[w].sent # <<>>
          /\ LastSent(conns[w]) = messages[2]
          /\ server.clients = <<w, v>>
          /\ \A x \in 1..Len(conns[v].sent) : conns[v].sent[x] # messages[2]

\* ---- the metrics recorder on its own: MaxThreads threads, each making up
\* to MaxCalls calls ----

NextMetrics ==
    \E t \in Threads :
        \/ EnterCount(t)
        \/ LeaveCount(t)
        \/ RecordLatency(t)
        \/ Reset(t)
        \/ CopyMessages(t)
        \/ CopyErrors(t)
        \/ CopyLatencies(t)
        \/ Compute(t)

SpecMetrics == Init /\ [][NextMetrics]_vars

\* C32: the mutations of the metrics recorder are atomic under the single
\* lock: whenever no thread is inside a record_* call, _messages and _errors
\* are the sums of the counts passed to record_ingest and record_error and
\* _latencies has one sample per record_latency call (since the last
\* reset), whatever the interleaving of the threads: no update is lost.
C32_NoLostUpdate ==
    (\A t \in Threads : threads[t].pc # "loaded") =>
        /\ recorder.messages = recorded.ingest
        /\ errors = recorded.error
        /\ Len(recorder.latencies) = recorded.latency

\* every thread has made all its calls, and ingests, errors and latencies
\* were recorded by more than one thread
C32_Witness ==
    /\ \A t \in Threads : threads[t].pc = "idle" /\ threads[t].done = MaxCalls
    /\ recorder.messages >= 2
    /\ errors >= 1
    /\ Len(recorder.latencies) >= 1

\* C33: get_metrics copies _messages, _errors and _latencies in one critical
\* section, so the three copies are the values the globals have at the
\* moment the lock is released, also with concurrent record_* and reset
\* calls; the lock is released before the statistics are computed, and the
\* snapshot returned is computed from the copies.
C33_SnapshotConsistent ==
    [][\A t \in Threads :
          /\ threads[t].pc = "copy_lat" /\ threads'[t].pc = "computing" =>
                /\ threads'[t].msgs = recorder.messages
                /\ threads'[t].errs = errors
                /\ threads'[t].lat_copy = recorder.latencies
          /\ threads'[t].pc = "computing" => recorder'.lock # t
          /\ threads[t].pc = "computing" /\ threads'[t].pc = "idle" =>
                /\ snapshot'.messages_total = threads[t].msgs
                /\ snapshot'.errors_total = threads[t].errs
                /\ threads[t].lat_copy # <<>> =>
                      snapshot'.latency.count = Len(threads[t].lat_copy)]_vars

\* one thread computes the statistics of its snapshot while another thread
\* is inside the critical section of a record_* call
C33_Witness ==
    \E t, u \in Threads :
        /\ threads[t].pc = "computing"
        /\ threads[t].lat_copy # <<>>
        /\ threads[u].pc = "loaded"
        /\ recorder.lock = u

\* ---- _percentile on its own: the inputs are drawn at the start ----

InitPercentile ==
    /\ Constructed
    /\ reader = NoReader
    /\ \E sorted_list \in SortedLists \cup {OneToTen}, q \in Quantiles :
          sample = Called(sorted_list, q)

SpecPercentile == InitPercentile /\ [][Percentile]_vars

\* C34: _percentile(sorted_samples, q) returns None for no samples, else the
\* linear interpolation between the samples at the floor and the ceiling of
\* the index q * (n - 1), and the last sample when the floor index is the
\* last index; for the samples 1, .., 10 p50 is 5.5; and the result lies
\* between the smallest and the largest sample (values in hundredths).
C34_PercentileInterpolates ==
    sample.pc = "returned" =>
        LET s == sample.sorted_list
            n == Len(s)
            index == sample.q * (n - 1)
            floor == index \div Hundred
            p == sample.p_value
        IN /\ s = <<>> <=> p = None
           /\ s # <<>> =>
                 /\ floor = n - 1 => p.value = Hundred * s[n]
                 /\ floor < n - 1 =>
                       Hundred * (p.value - Hundred * s[floor + 1])
                           = (index - Hundred * floor)
                                 * (Hundred * s[floor + 2] - Hundred * s[floor + 1])
                 /\ Hundred * s[1] <= p.value
                 /\ p.value <= Hundred * s[n]
           /\ s = OneToTen /\ sample.q = 50 => p.value = 550

\* p50 of the samples 1, .., 10 has been computed as 5.5
C34_Witness ==
    /\ sample.pc = "returned"
    /\ sample.sorted_list = OneToTen
    /\ sample.q = 50
    /\ sample.p_value = [value |-> 550]

\* ---- the readers on their own: the file is drawn at the start ----

InitReader ==
    /\ Constructed
    /\ sample = NoSample
    /\ \E module \in {"mbo_reader", "tcp_server"}, lines \in Files :
          reader = NewReader(module, lines)

NextReader ==
    \/ Load
    \/ Feed

SpecReader == InitReader /\ [][NextReader]_vars


\* the data lines of the reader's file: neither blank nor a comment
DataLines == SelectSeq(reader.lines, LAMBDA line : ~ Skipped(line))

\* the messages load produces for a file of this one line
OneLine(line) == loaded(reader.module, <<line>>).messages

\* C35: MBOFileReader.load (mbo_reader.py) is never aborted by a malformed line: every
\* malformed or invalid data line is skipped and counted in the reader's
\* error count, so that messages loaded + errors counted equals the number
\* of non-blank, non-comment data lines, and the loaded messages keep file
\* order.
C35_MalformedLinesCounted ==
    reader.pc = "loaded" /\ reader.module = "mbo_reader" =>
        /\ Len(reader.messages) + reader.errors = Len(DataLines)
        /\ \E at \in [1..Len(reader.messages) -> 1..Len(reader.lines)] :
              /\ \A x, y \in DOMAIN at : x < y => at[x] < at[y]
              /\ \A x \in DOMAIN at : OneLine(reader.lines[at[x]]) = <<reader.messages[x]>>

\* the order is queued on that side of its book
QueuedOn(symbol, m, lv) ==
    \E p \in DOMAIN books[symbol][lv] :
        \E x \in 1..Len(books[symbol][lv][p]) : books[symbol][lv][p][x] = m

\* C36: every event produced by MBOFileReader.load (either reader) has side
\* 'bid' or 'ask': a record whose side is bid, buy or b in any case gives an
\* event of side bid and one whose side is ask, sell or s an event of side
\* ask, and an order that came from a record with a bid word is queued on
\* the bid side of the book once the event has been applied.
C36_SideNormalised ==
    reader.pc = "loaded" =>
        /\ \A x \in 1..Len(reader.messages) : reader.messages[x].side \in Sides
        /\ \A x \in 1..Len(reader.lines) :
              LET line == reader.lines[x]
              IN Len(line) >= 7 /\ OneLine(line) # <<>> =>
                    /\ lower(line[5]) \in BidWords => OneLine(line)[1].side = "bid"
                    /\ lower(line[5]) \in AskWords => OneLine(line)[1].side = "ask"
        /\ \A symbol \in DOMAIN books :
              \A id \in DOMAIN books[symbol].orders :
                  LET m == books[symbol].orders[id]
                  IN /\ heap[m].side \in BidWords => QueuedOn(symbol, m, "bids")
                     /\ heap[m].side \in AskWords => QueuedOn(symbol, m, "asks")

\* ---- the book again ----

\* C37: a MODIFY of a resident order that provides no price and no side
\* keeps the order's price and side: afterwards the order is in the lookup
\* table and is the last of the queue of its old level, with the size of
\* the MODIFY.
C37_ModifyKeepsLevel ==
    \A e \in ModifyWithoutLevel :
        Resident(e) =>
            LET old == heap[books[e.symbol].orders[e.order_id]]
                r == applied(heap, books, e)
                after == DictsAt(r.heap, r.books[e.symbol], LevelOf(old.side), old.price)
            IN /\ e.order_id \in DOMAIN r.books[e.symbol].orders
               /\ after # <<>>
               /\ after[Len(after)].order_id = e.order_id
               /\ after[Len(after)].size = e.size

\* C40: OrderBook.apply treats events as immutable input: applying an event
\* changes the contents of no event dict that was passed to apply earlier
\* (those the book still refers to are the objects of the heap), nor of the
\* event itself, so the list of events the caller holds is field for field
\* the same afterwards.
C40_EventsImmutable ==
    \A e \in Events :
        LET m == Fresh(heap)
            h == Put(heap, m, e)
            bs == IF e.symbol \in DOMAIN books THEN books
                  ELSE Put(books, e.symbol, NewBook)
            res == Dispatch(bs[e.symbol], h, m)
        IN \A x \in DOMAIN h : res.heap[x] = h[x]

====
